---- MODULE Spec2Model ----
(***************************************************************************)
(* Model of the delivery application (couriers, orders, batches):          *)
(* AssignSerializer.save, CourierSerializer.update,                        *)
(* CompleteSerializer.update/validate_courier_id and the courier GET over  *)
(* the tables of delivery/models.py, with the rating and earnings of       *)
(* CourierDetailSerializer.                                                *)
(*                                                                         *)
(* Weights are DecimalField(decimal_places=2) values, kept as integer      *)
(* hundredths.  A time window "HH:MM-HH:MM" is the pair <<start, end>> of  *)
(* minutes of the day: TimeRangeField accepts only zero-padded two-digit   *)
(* fields, for which the string comparison of has_intersection orders the  *)
(* endpoints as the minute values do.  NULL is None (ids and timestamps    *)
(* are positive).                                                          *)
(***************************************************************************)
EXTENDS Integers, Sequences, FiniteSets, TLC

\* ------------------------------------------------------------------ bounds
NumOrders == 3
MaxBatches == 2
MaxTime == 2

\* ------------------------------------------------------- program constants
None == 0
FOOT == "foot"
BIKE == "bike"
CAR == "car"
COURIER_TYPES == {FOOT, BIKE, CAR}
COURIER_CAPACITIES == [foot |-> 10, bike |-> 15, car |-> 50]
COURIER_PAYMENT_RATES == [foot |-> 2, bike |-> 5, car |-> 9]
\* Order.weight has two decimal places: one weight unit is 100 hundredths
WeightScale == 100
\* round(..., 2): a rating has two decimal places
RatingScale == 100
\* get_rating returns None: no rating (a rating is never negative)
NoRating == -1

HTTP_200_OK == 200
HTTP_201_CREATED == 201
HTTP_400_BAD_REQUEST == 400
\* an unhandled IntegrityError ends the request with a server error
HTTP_500_INTERNAL_SERVER_ERROR == 500

\* ------------------------------------------------------------ input sets
Couriers == {1, 2}
Procs == {1, 2}
Orders == 1..NumOrders
Times == 1..MaxTime
\* the timestamps of assign_time and complete_time are whole hours apart
SecondsPerTick == 60 * 60
\* 09:00-12:00 and 12:00-18:00 (they touch at 12:00)
W_AM == <<540, 720>>
W_PM == <<720, 1080>>
\* the courier profiles of POST /couriers and PATCH /couriers/<id> payloads:
\* a wide car, a wide foot courier, a bike in region 1 working 09:00-12:00
Profiles ==
  {[courier_type |-> CAR, regions |-> {1, 2}, working_hours |-> {W_AM, W_PM}],
   [courier_type |-> FOOT, regions |-> {1, 2}, working_hours |-> {W_AM, W_PM}],
   [courier_type |-> BIKE, regions |-> {1}, working_hours |-> {W_AM}]}
\* the orders created through POST /orders, by id: order 1 is in region 1
\* for 12:00-14:00, order 2 in region 1 for 10:00-12:00, every later order in
\* region 2 for 10:00-12:00; the weights are 10.00, 10.00, 12.00, 10.00, ...
RegionOf(o) == IF o <= 2 THEN 1 ELSE 2
DeliveryHoursOf(o) == IF o % 2 = 1 /\ o < 3 THEN {<<720, 840>>} ELSE {<<600, 720>>}
WeightOf(o) == IF o % 3 = 0 THEN 1200 ELSE 1000

\* the three tables, the last request with its response, and the state of
\* the requests in flight (used by the interleaved specification only)
VARIABLES couriers, orders, batches, request, response, procs

vars == <<couriers, orders, batches, request, response, procs>>

\* ---------------------------------------------------------------- helpers
RECURSIVE SumWeights(_, _)
SumWeights(S, ords) ==
  IF S = {} THEN 0
  ELSE LET o == CHOOSE x \in S : TRUE
       IN ords[o].weight + SumWeights(S \ {o}, ords)

Perms(S) ==
  {f \in [1..Cardinality(S) -> S] :
     \A i, j \in 1..Cardinality(S) : i # j => f[i] # f[j]}

\* the rows of a queryset without ORDER BY come in an unspecified order
all(S) == Perms(S)

\* mutant: order_by('-weight') where the code has order_by('weight')
order_by_weight_descending(S, ords) ==
  {s \in Perms(S) :
     \A i \in 1..(Cardinality(S) - 1) : ords[s[i]].weight >= ords[s[i + 1]].weight}

\* .order_by('weight'): ascending by weight, rows of equal weight in an
\* unspecified order
order_by_weight(S, ords) ==
  {s \in Perms(S) :
     \A i \in 1..(Cardinality(S) - 1) : ords[s[i]].weight <= ords[s[i + 1]].weight}

\* mutant: order_by('weight') where the code has order_by('-weight')
order_by_weight_desc_ascending(S, ords) ==
  {s \in Perms(S) :
     \A i \in 1..(Cardinality(S) - 1) : ords[s[i]].weight <= ords[s[i + 1]].weight}

\* .order_by('-weight')
order_by_weight_desc(S, ords) ==
  {s \in Perms(S) :
     \A i \in 1..(Cardinality(S) - 1) : ords[s[i]].weight >= ords[s[i + 1]].weight}

has_intersection(time_ranges_1, time_ranges_2) ==
  \E i \in time_ranges_1 : \E j \in time_ranges_2 :
    LET start1 == j[1]
        end1 == j[2]
        start2 == i[1]
        end2 == i[2]
    IN start1 < end2 /\ end1 > start2

\* Courier.capacity, in hundredths
capacity(courier) == COURIER_CAPACITIES[courier.courier_type] * WeightScale

BatchIds(bats) == 1..Len(bats)

\* batch.orders.all()
batch_orders(b, ords) == {o \in Orders : ords[o].batch = b}

\* Order.objects.filter(batch=b, complete_time__isnull=True)
incomplete_orders(b, ords) ==
  {o \in Orders : ords[o].batch = b /\ ords[o].complete_time = None}

\* hasattr(courier, 'current_batch')
has_current_batch(c, bats) == \E b \in BatchIds(bats) : bats[b].current_courier = c

\* courier.current_batch (the reverse side of the one-to-one field)
current_batch(c, bats) == CHOOSE b \in BatchIds(bats) : bats[b].current_courier = c

\* courier.past_batches
past_batches(c, bats) == {b \in BatchIds(bats) : bats[b].past_courier = c}

\* Order.objects.filter(batch__current_courier=c, complete_time__isnull=True)
courier_incomplete_orders(c, ords, bats) ==
  {o \in Orders :
     /\ ords[o].complete_time = None
     /\ IF c = None
        THEN \* a NULL lookup is IS NULL over the left join on batch
             ords[o].batch = None \/ bats[ords[o].batch].current_courier = None
        ELSE ords[o].batch # None /\ bats[ords[o].batch].current_courier = c}

\* Courier.total_weight
total_weight(c, ords, bats) == SumWeights(courier_incomplete_orders(c, ords, bats), ords)

IsOpen(b, bats) == bats[b].current_courier # None /\ bats[b].past_courier = None
IsClosed(b, bats) == bats[b].current_courier = None /\ bats[b].past_courier # None
IsCanceled(b, bats) == bats[b].current_courier = None /\ bats[b].past_courier = None

\* ------------------------------------------------------------------- Init
\* once_assigned: the request returned at "don't take new orders once assigned"
NoRequest ==
  [op |-> "none", courier_id |-> None, order_id |-> None, complete_time |-> None,
   once_assigned |-> FALSE]
\* the body of a response that carries no courier representation
NoData == [courier_id |-> None]
NoResponse == [status |-> None, orders |-> <<>>, assign_time |-> None, data |-> NoData]
Idle == [pc |-> "idle", courier_id |-> None, taken_orders |-> <<>>, batch |-> None]

Init ==
  /\ couriers \in [Couriers -> Profiles]
  /\ orders = [o \in Orders |->
                 [weight |-> WeightOf(o), region |-> RegionOf(o),
                  delivery_hours |-> DeliveryHoursOf(o),
                  complete_time |-> None, batch |-> None]]
  /\ batches = <<>>
  /\ request = NoRequest
  /\ response = NoResponse
  /\ procs = [p \in Procs |-> Idle]

\* ------------------------------------------------------------------ Assign
\* mutant: the batch__isnull filter is missing
candidates_with_assigned(courier, ords) ==
  {o \in Orders :
     /\ ords[o].complete_time = None
     /\ ords[o].region \in courier.regions}

\* the candidate queryset of AssignSerializer.save
candidates(courier, ords) ==
  {o \in Orders :
     /\ ords[o].batch = None
     /\ ords[o].complete_time = None
     /\ ords[o].region \in courier.regions}

\* the "take orders" loop of AssignSerializer.save over the sorted rows
RECURSIVE take_orders(_, _, _, _, _, _)
take_orders(seq, i, total, taken, courier, ords) ==
  IF i > Len(seq) THEN taken
  ELSE LET order == seq[i]
       IN IF ~has_intersection(ords[order].delivery_hours, courier.working_hours)
          THEN take_orders(seq, i + 1, total, taken, courier, ords)
          ELSE IF total + ords[order].weight <= capacity(courier)
               THEN take_orders(seq, i + 1, total + ords[order].weight,
                                Append(taken, order), courier, ords)
               ELSE taken

RECURSIVE SeqWeight(_, _)
SeqWeight(seq, ords) ==
  IF seq = <<>> THEN 0 ELSE ords[Head(seq)].weight + SeqWeight(Tail(seq), ords)

Range(seq) == {seq[i] : i \in 1..Len(seq)}

\* timezone.now(): the clock has advanced by one unit at each batch creation
now(bats) == Len(bats) + 1

\* Batch.objects.create(current_courier=..., assign_time=..., assign_type=...)
create_batch(c, assign_time, assign_type, bats) ==
  Append(bats, [past_courier |-> None, current_courier |-> c,
                assign_time |-> assign_time, assign_type |-> assign_type])

\* batch.orders.set(taken_orders)
set_orders(b, taken, ords) ==
  [o \in Orders |->
     IF o \in taken THEN [ords[o] EXCEPT !.batch = b]
     ELSE IF ords[o].batch = b THEN [ords[o] EXCEPT !.batch = None]
     ELSE ords[o]]

\* mutant: get_orders does not leave out the completed orders
AssignResponses_with_completed(c, ords, bats) ==
  IF has_current_batch(c, bats)
  THEN LET b == current_batch(c, bats)
       IN {[status |-> HTTP_200_OK, orders |-> s, assign_time |-> bats[b].assign_time,
              data |-> NoData] :
             s \in all(batch_orders(b, ords))}
  ELSE {[status |-> HTTP_200_OK, orders |-> <<>>, assign_time |-> None, data |-> NoData]}

\* AssignSerializer.to_representation / get_orders
AssignResponses(c, ords, bats) ==
  IF has_current_batch(c, bats)
  THEN LET b == current_batch(c, bats)
       IN {[status |-> HTTP_200_OK, orders |-> s, assign_time |-> bats[b].assign_time,
              data |-> NoData] :
             s \in all(incomplete_orders(b, ords))}
  ELSE {[status |-> HTTP_200_OK, orders |-> <<>>, assign_time |-> None, data |-> NoData]}

\* mutant: a plain ForeignKey, without the unique constraint
no_unique_constraint(c, bats) == TRUE

\* Batch.current_courier is a OneToOneField: the table has a unique
\* constraint on current_courier, so the INSERT of a second batch with the
\* same current courier raises IntegrityError
unique_current_courier(c, bats) == ~has_current_batch(c, bats)

\* mutant: the hasattr guard is missing
assign_save_no_guard(c, seq, crs, ords, bats) ==
  LET taken_orders == take_orders(seq, 1, 0, <<>>, crs[c], ords)
  IN IF SeqWeight(taken_orders, ords) = 0
     THEN [orders |-> ords, batches |-> bats]
     ELSE [orders |-> set_orders(Len(bats) + 1, Range(taken_orders), ords),
           batches |-> create_batch(c, now(bats), crs[c].courier_type, bats)]

\* mutant: the total_weight == 0 return is missing
assign_save_empty_batch(c, seq, crs, ords, bats) ==
  IF has_current_batch(c, bats)
  THEN [orders |-> ords, batches |-> bats]
  ELSE LET taken_orders == take_orders(seq, 1, 0, <<>>, crs[c], ords)
       IN [orders |-> set_orders(Len(bats) + 1, Range(taken_orders), ords),
           batches |-> create_batch(c, now(bats), crs[c].courier_type, bats)]

\* mutant: a repeated Assign takes orders again and puts them in the batch
\* the courier already has
assign_save_reuses_batch(c, seq, crs, ords, bats) ==
  LET taken_orders == take_orders(seq, 1, 0, <<>>, crs[c], ords)
  IN IF SeqWeight(taken_orders, ords) = 0
     THEN [orders |-> ords, batches |-> bats]
     ELSE IF has_current_batch(c, bats)
          THEN [orders |-> set_orders(current_batch(c, bats), Range(taken_orders), ords),
                batches |-> bats]
          ELSE [orders |-> set_orders(Len(bats) + 1, Range(taken_orders), ords),
                batches |-> create_batch(c, now(bats), crs[c].courier_type, bats)]

\* AssignSerializer.save over the fetched rows `seq`
assign_save(c, seq, crs, ords, bats) ==
  IF has_current_batch(c, bats)
  THEN [orders |-> ords, batches |-> bats]
  ELSE LET taken_orders == take_orders(seq, 1, 0, <<>>, crs[c], ords)
       IN IF SeqWeight(taken_orders, ords) = 0
          THEN [orders |-> ords, batches |-> bats]
          ELSE [orders |-> set_orders(Len(bats) + 1, Range(taken_orders), ords),
                batches |-> create_batch(c, now(bats), crs[c].courier_type, bats)]

Assign(c) ==
  /\ request' = [op |-> "assign", courier_id |-> c, order_id |-> None,
                 complete_time |-> None,
                 once_assigned |-> has_current_batch(c, batches)]
  /\ \E seq \in order_by_weight(candidates(couriers[c], orders), orders) :
       LET res == assign_save(c, seq, couriers, orders, batches)
       IN /\ Len(res.batches) <= MaxBatches
          /\ orders' = res.orders
          /\ batches' = res.batches
  /\ response' \in AssignResponses(c, orders', batches')
  /\ UNCHANGED <<couriers, procs>>

\* ---------------------------------------------------- UpdateCourierProfile
\* CourierSerializer.to_representation: the Meta fields and courier_id
courier_to_representation(c, crs) ==
  [courier_id |-> c, courier_type |-> crs[c].courier_type,
   regions |-> crs[c].regions, working_hours |-> crs[c].working_hours]

\* mutant: the complete_time__isnull filter is missing
drop_by_regions_any(b, courier, ords) ==
  [o \in Orders |->
     IF o \in batch_orders(b, ords) /\ ords[o].region \notin courier.regions
     THEN [ords[o] EXCEPT !.batch = None]
     ELSE ords[o]]

\* mutant: .filter(region__in=...) where the code has .exclude(...)
drop_by_regions_filter(b, courier, ords) ==
  [o \in Orders |->
     IF o \in incomplete_orders(b, ords) /\ ords[o].region \in courier.regions
     THEN [ords[o] EXCEPT !.batch = None]
     ELSE ords[o]]

\* orders_to_drop.update(batch=None): incomplete orders of the batch whose
\* region is not in the courier's regions
drop_by_regions(b, courier, ords) ==
  [o \in Orders |->
     IF o \in incomplete_orders(b, ords) /\ ords[o].region \notin courier.regions
     THEN [ords[o] EXCEPT !.batch = None]
     ELSE ords[o]]

\* order.batch = None; order.save() on a row fetched by the `orders` queryset:
\* save() writes every field of the fetched row, whose complete_time is NULL
save_dropped(o, ords) ==
  [ords EXCEPT ![o] = [@ EXCEPT !.batch = None, !.complete_time = None]]

\* mutant: the schedule is not checked
drop_by_hours_skipped(seq, courier, ords) == ords

\* the loop over `orders` that drops orders with a non-matching schedule
drop_by_hours(seq, courier, ords) ==
  [o \in Orders |->
     IF o \in Range(seq)
        /\ ~has_intersection(ords[o].delivery_hours, courier.working_hours)
     THEN save_dropped(o, ords)[o]
     ELSE ords[o]]

\* mutant: the emptied batch is moved to the courier's past batches
cancel_if_empty_closes(b, ords, bats) ==
  IF batch_orders(b, ords) = {}
  THEN [bats EXCEPT ![b] = [@ EXCEPT !.past_courier = bats[b].current_courier,
                                      !.current_courier = None]]
  ELSE bats

\* "cancel the batch if there is nothing left": batch.save() writes the row
\* that hasattr(instance, 'current_batch') loaded, whose past_courier is NULL
cancel_if_empty(b, ords, bats) ==
  IF batch_orders(b, ords) = {}
  THEN [bats EXCEPT ![b] = [@ EXCEPT !.current_courier = None, !.past_courier = None]]
  ELSE bats

\* mutant: only the heaviest order is dropped
drop_heavy_once(seq, i, c, courier, ords, bats) ==
  IF i > Len(seq) THEN ords ELSE [ords EXCEPT ![seq[i]].batch = None]

\* the loop over the already fetched `orders` (heaviest first) that drops
\* orders until the weight fits; rows dropped before are saved again unchanged
RECURSIVE drop_heavy(_, _, _, _, _, _)
drop_heavy(seq, i, c, courier, ords, bats) ==
  IF i > Len(seq) THEN ords
  ELSE LET dropped == save_dropped(seq[i], ords)
       IN IF capacity(courier) >= total_weight(c, dropped, bats)
          THEN dropped
          ELSE drop_heavy(seq, i + 1, c, courier, dropped, bats)

\* mutant: the batch follows the courier's new type
update_batch_retypes(c, courier, b, seq, ords1, bats) ==
  LET bats1 == [bats EXCEPT ![b].assign_type = courier.courier_type]
      ords2 == drop_by_hours(seq, courier, ords1)
      bats2 == cancel_if_empty(b, ords2, bats1)
  IN IF capacity(courier) >= total_weight(c, ords2, bats2)
     THEN [orders |-> ords2, batches |-> bats2]
     ELSE LET ords3 == drop_heavy(seq, 1, c, courier, ords2, bats2)
          IN [orders |-> ords3, batches |-> cancel_if_empty(b, ords3, bats2)]

\* CourierSerializer.update after the fields are saved: `seq` is the result
\* of the `orders` queryset, fetched once after the region drop
update_batch(c, courier, b, seq, ords1, bats) ==
  LET ords2 == drop_by_hours(seq, courier, ords1)
      bats2 == cancel_if_empty(b, ords2, bats)
  IN IF capacity(courier) >= total_weight(c, ords2, bats2)
     THEN [orders |-> ords2, batches |-> bats2]
     ELSE LET ords3 == drop_heavy(seq, 1, c, courier, ords2, bats2)
          IN [orders |-> ords3, batches |-> cancel_if_empty(b, ords3, bats2)]

\* mutant: the guard is hasattr(instance, 'past_batches'), which always
\* holds, and instance.current_batch raises for a courier without a batch
courier_update_wrong_guard(c, courier, ords, bats) ==
  IF ~has_current_batch(c, bats)
  THEN {[orders |-> ords, batches |-> bats, status |-> HTTP_500_INTERNAL_SERVER_ERROR]}
  ELSE LET batch == current_batch(c, bats)
           ords1 == drop_by_regions(batch, courier, ords)
       IN {[orders |-> update_batch(c, courier, batch, seq, ords1, bats).orders,
            batches |-> update_batch(c, courier, batch, seq, ords1, bats).batches,
            status |-> HTTP_200_OK] :
             seq \in order_by_weight_desc(incomplete_orders(batch, ords1), ords1)}

\* CourierSerializer.update once the fields are saved: the outcomes, one per
\* order in which the `orders` queryset may return rows of equal weight
courier_update(c, courier, ords, bats) ==
  IF ~has_current_batch(c, bats)
  THEN {[orders |-> ords, batches |-> bats, status |-> HTTP_200_OK]}
  ELSE LET batch == current_batch(c, bats)
           ords1 == drop_by_regions(batch, courier, ords)
       IN {[orders |-> update_batch(c, courier, batch, seq, ords1, bats).orders,
            batches |-> update_batch(c, courier, batch, seq, ords1, bats).batches,
            status |-> HTTP_200_OK] :
             seq \in order_by_weight_desc(incomplete_orders(batch, ords1), ords1)}

UpdateCourierProfile(c, courier) ==
  /\ request' = [op |-> "update", courier_id |-> c, order_id |-> None,
                 complete_time |-> None, once_assigned |-> FALSE]
  /\ couriers' = [couriers EXCEPT ![c] = courier]
  /\ \E res \in courier_update(c, courier, orders, batches) :
       /\ orders' = res.orders
       /\ batches' = res.batches
       /\ response' = [status |-> res.status, orders |-> <<>>, assign_time |-> None,
                       data |-> IF res.status = HTTP_200_OK
                                THEN courier_to_representation(c, couriers')
                                ELSE NoData]
  /\ UNCHANGED procs

\* ----------------------------------------------------------- CompleteOrder
\* mutant: the courier id is not compared
validate_courier_id_unchecked(order, value, ords, bats) ==
  LET batch == ords[order].batch
  IN ~(batch = None
       \/ (bats[batch].current_courier = None /\ bats[batch].past_courier = None))

\* mutant: only the current courier of the batch is accepted
validate_courier_id_current_only(order, value, ords, bats) ==
  LET batch == ords[order].batch
  IN IF batch = None \/ bats[batch].current_courier = None
     THEN FALSE
     ELSE value = bats[batch].current_courier

\* CompleteSerializer.validate_courier_id: TRUE when no ValidationError
validate_courier_id(order, value, ords, bats) ==
  LET batch == ords[order].batch
  IN IF batch = None
        \/ (bats[batch].current_courier = None /\ bats[batch].past_courier = None)
     THEN FALSE
     ELSE IF \/ (bats[batch].current_courier # None
                 /\ value # bats[batch].current_courier)
             \/ (bats[batch].past_courier # None
                 /\ value # bats[batch].past_courier)
          THEN FALSE
          ELSE TRUE

\* mutant: current_courier is not cleared
close_batch_keeps_current(b, bats) ==
  [bats EXCEPT ![b].past_courier = bats[b].current_courier]

\* mutant: current_courier is cleared before it is copied
close_batch_swapped(b, bats) ==
  [bats EXCEPT ![b] = [@ EXCEPT !.current_courier = None, !.past_courier = None]]

\* "last order": move the batch to the courier's past batches
close_batch(b, bats) ==
  [bats EXCEPT ![b] = [@ EXCEPT !.past_courier = bats[b].current_courier,
                                !.current_courier = None]]

\* mutant: the batch is closed without looking for incomplete orders
complete_update_always_closes(order, complete_time, ords, bats) ==
  IF ords[order].complete_time # None
  THEN [orders |-> ords, batches |-> bats]
  ELSE [orders |-> [ords EXCEPT ![order].complete_time = complete_time],
        batches |-> close_batch(ords[order].batch, bats)]

\* mutant: no early return for a completed order
complete_update_overwrites(order, complete_time, ords, bats) ==
  LET ords1 == [ords EXCEPT ![order].complete_time = complete_time]
      batch == ords1[order].batch
      left == courier_incomplete_orders(bats[batch].current_courier, ords1, bats)
  IN [orders |-> ords1,
      batches |-> IF left = {} THEN close_batch(batch, bats) ELSE bats]

\* CompleteSerializer.update
complete_update(order, complete_time, ords, bats) ==
  IF ords[order].complete_time # None
  THEN [orders |-> ords, batches |-> bats]
  ELSE LET ords1 == [ords EXCEPT ![order].complete_time = complete_time]
           batch == ords1[order].batch
           left == courier_incomplete_orders(bats[batch].current_courier, ords1, bats)
       IN [orders |-> ords1,
           batches |-> IF left = {} THEN close_batch(batch, bats) ELSE bats]

CompleteOrder(order, courier_id, complete_time) ==
  /\ request' = [op |-> "complete", courier_id |-> courier_id, order_id |-> order,
                 complete_time |-> complete_time, once_assigned |-> FALSE]
  /\ IF ~validate_courier_id(order, courier_id, orders, batches)
     THEN /\ UNCHANGED <<orders, batches>>
          /\ response' = [status |-> HTTP_400_BAD_REQUEST, orders |-> <<>>,
                          assign_time |-> None, data |-> NoData]
     ELSE LET res == complete_update(order, complete_time, orders, batches)
          IN /\ orders' = res.orders
             /\ batches' = res.batches
             /\ response' = [status |-> HTTP_200_OK, orders |-> <<>>,
                             assign_time |-> None, data |-> NoData]
  /\ UNCHANGED <<couriers, procs>>

\* ----------------------------------------------------- rating and earnings
\* CourierDetailSerializer.get_earnings
RECURSIVE earnings_of(_, _)
earnings_of(B, bats) ==
  IF B = {} THEN 0
  ELSE LET batch == CHOOSE b \in B : TRUE
       IN COURIER_PAYMENT_RATES[bats[batch].assign_type] * 500
            + earnings_of(B \ {batch}, bats)

\* mutant: the courier's current batch is paid too
get_earnings_with_current(c, bats) ==
  earnings_of({b \in BatchIds(bats) : c \in {bats[b].past_courier, bats[b].current_courier}},
              bats)

get_earnings(c, bats) == earnings_of(past_batches(c, bats), bats)

\* the inner loop of get_rating over the rows `seq` of batch.orders.all():
\* one [region, delivery_time] sample per order, in seconds
RECURSIVE batch_delivery_times(_, _, _, _)
batch_delivery_times(seq, i, start_time, ords) ==
  IF i > Len(seq) THEN <<>>
  ELSE LET order == ords[seq[i]]
       IN <<[region |-> order.region,
             delivery_time |-> (order.complete_time - start_time) * SecondsPerTick]>>
            \o batch_delivery_times(seq, i + 1, order.complete_time, ords)

\* the outer loop of get_rating: walks[b] is the order in which the rows of
\* batch b came
RECURSIVE delivery_times(_, _, _, _)
delivery_times(B, walks, ords, bats) ==
  IF B = {} THEN <<>>
  ELSE LET batch == CHOOSE b \in B : TRUE
       IN batch_delivery_times(walks[batch], 1, bats[batch].assign_time, ords)
            \o delivery_times(B \ {batch}, walks, ords, bats)

RECURSIVE SumTimes(_, _)
SumTimes(I, samples) ==
  IF I = {} THEN 0
  ELSE LET i == CHOOSE x \in I : TRUE
       IN samples[i].delivery_time + SumTimes(I \ {i}, samples)

\* [mean(region_times) for region_times in delivery_times.values()]: the
\* mean of a region is the fraction sum / n
avg_times(samples) ==
  {[sum |-> SumTimes({i \in 1..Len(samples) : samples[i].region = r}, samples),
    n |-> Cardinality({i \in 1..Len(samples) : samples[i].region = r})] :
     r \in {samples[i].region : i \in 1..Len(samples)}}

\* min(avg_times)
min_avg_time(avgs) ==
  CHOOSE t \in avgs : \A x \in avgs : t.sum * x.n <= x.sum * t.n

\* round(num / den, 0) for den > 0, halves to the even neighbour
round_half_even(num, den) ==
  LET q == num \div den
      r == num % den
  IN IF 2 * r < den THEN q
     ELSE IF 2 * r > den THEN q + 1
     ELSE IF q % 2 = 0 THEN q ELSE q + 1

\* the orders in which the rows of the courier's past batches can come
Walks(c, ords, bats) ==
  {w \in [past_batches(c, bats) -> UNION {all(batch_orders(b, ords)) : b \in past_batches(c, bats)}] :
     \A b \in past_batches(c, bats) : w[b] \in all(batch_orders(b, ords))}

\* CourierDetailSerializer.get_rating, in hundredths; NoRating when there is
\* no past batch.  (An order without complete_time in a past batch, or past
\* batches without any order, would raise; neither state is reachable.)
get_rating(c, walks, ords, bats) ==
  IF past_batches(c, bats) = {} THEN NoRating
  ELSE LET t == min_avg_time(avg_times(delivery_times(past_batches(c, bats), walks,
                                                      ords, bats)))
       IN IF t.sum >= 60 * 60 * t.n
          THEN 0
          ELSE round_half_even((60 * 60 * t.n - t.sum) * 5 * RatingScale,
                               60 * 60 * t.n)

\* mutant: `if not ret['rating']` where the code has `is None`
detail_to_representation_falsy(c, walks, crs, ords, bats) ==
  IF get_rating(c, walks, ords, bats) \in {NoRating, 0}
  THEN [courier_id |-> c, courier_type |-> crs[c].courier_type,
        regions |-> crs[c].regions, working_hours |-> crs[c].working_hours,
        earnings |-> get_earnings(c, bats)]
  ELSE [courier_id |-> c, courier_type |-> crs[c].courier_type,
        regions |-> crs[c].regions, working_hours |-> crs[c].working_hours,
        rating |-> get_rating(c, walks, ords, bats),
        earnings |-> get_earnings(c, bats)]

\* CourierDetailSerializer.to_representation
detail_to_representation(c, walks, crs, ords, bats) ==
  IF get_rating(c, walks, ords, bats) = NoRating
  THEN [courier_id |-> c, courier_type |-> crs[c].courier_type,
        regions |-> crs[c].regions, working_hours |-> crs[c].working_hours,
        earnings |-> get_earnings(c, bats)]
  ELSE [courier_id |-> c, courier_type |-> crs[c].courier_type,
        regions |-> crs[c].regions, working_hours |-> crs[c].working_hours,
        rating |-> get_rating(c, walks, ords, bats),
        earnings |-> get_earnings(c, bats)]

\* GET /couriers/<courier_id>: CourierUpdateView is a RetrieveUpdateAPIView
\* whose serializer_class is CourierSerializer
RetrieveCourier(c) ==
  /\ request' = [op |-> "retrieve", courier_id |-> c, order_id |-> None,
                 complete_time |-> None, once_assigned |-> FALSE]
  /\ response' = [status |-> HTTP_200_OK, orders |-> <<>>, assign_time |-> None,
                  data |-> courier_to_representation(c, couriers)]
  /\ UNCHANGED <<couriers, orders, batches, procs>>

\* ------------------------------------------------------------------- Spec
Next ==
  \/ \E c \in Couriers : Assign(c)
  \/ \E c \in Couriers : \E courier \in Profiles : UpdateCourierProfile(c, courier)
  \/ \E o \in Orders : \E c \in Couriers : CompleteOrder(o, c, MaxTime)
  \/ \E c \in Couriers : RetrieveCourier(c)

\* sequential requests; every completion carries the timestamp MaxTime
Spec == Init /\ [][Next]_vars

\* a second set of orders, in which only order 2 is light enough for a foot
\* courier: the weights are 12.00, 10.00, 12.00, 12.00, ...
HeavyWeightOf(o) == IF o = 2 THEN 1000 ELSE 1200

InitH ==
  /\ couriers \in [Couriers -> Profiles]
  /\ orders = [o \in Orders |->
                 [weight |-> HeavyWeightOf(o), region |-> RegionOf(o),
                  delivery_hours |-> DeliveryHoursOf(o),
                  complete_time |-> None, batch |-> None]]
  /\ batches = <<>>
  /\ request = NoRequest
  /\ response = NoResponse
  /\ procs = [p \in Procs |-> Idle]

\* sequential requests over the second set of orders
SpecH == InitH /\ [][Next]_vars

NextT ==
  \/ \E c \in Couriers : Assign(c)
  \/ \E c \in Couriers : \E courier \in Profiles : UpdateCourierProfile(c, courier)
  \/ \E o \in Orders : \E c \in Couriers : \E t \in Times : CompleteOrder(o, c, t)
  \/ \E c \in Couriers : RetrieveCourier(c)

\* sequential requests; completions carry any timestamp of Times
SpecT == Init /\ [][NextT]_vars

\* ------------------------------------------ interleaved Assign requests
\* Each request runs in autocommit mode, one statement at a time, so the
\* statements of two Assign requests interleave.  A request p goes through
\* check (hasattr), take (the candidate query and the loop), create (INSERT
\* of the batch), set (UPDATE of the taken orders) and respond.
AssignRequest(c, once_assigned) ==
  [op |-> "assign", courier_id |-> c, order_id |-> None, complete_time |-> None,
   once_assigned |-> once_assigned]

\* "don't take new orders once assigned"
AssignCheck(p, c) ==
  /\ procs[p].pc = "idle"
  /\ IF has_current_batch(c, batches)
     THEN /\ request' = AssignRequest(c, TRUE)
          /\ response' \in AssignResponses(c, orders, batches)
          /\ UNCHANGED procs
     ELSE /\ procs' = [procs EXCEPT ![p] = [Idle EXCEPT !.pc = "take", !.courier_id = c]]
          /\ UNCHANGED <<request, response>>
  /\ UNCHANGED <<couriers, orders, batches>>

\* the candidate query and the "take orders" loop
AssignTake(p) ==
  /\ procs[p].pc = "take"
  /\ LET c == procs[p].courier_id
     IN \E seq \in order_by_weight(candidates(couriers[c], orders), orders) :
          LET taken_orders == take_orders(seq, 1, 0, <<>>, couriers[c], orders)
          IN IF SeqWeight(taken_orders, orders) = 0
             THEN /\ procs' = [procs EXCEPT ![p] = Idle]
                  /\ request' = AssignRequest(c, FALSE)
                  /\ response' = [status |-> HTTP_200_OK, orders |-> <<>>,
                                  assign_time |-> None, data |-> NoData]
             ELSE /\ procs' = [procs EXCEPT ![p].pc = "create",
                                            ![p].taken_orders = taken_orders]
                  /\ UNCHANGED <<request, response>>
  /\ UNCHANGED <<couriers, orders, batches>>

\* Batch.objects.create(...): the INSERT, refused by the unique constraint
AssignCreate(p) ==
  /\ procs[p].pc = "create"
  /\ LET c == procs[p].courier_id
     IN IF unique_current_courier(c, batches)
        THEN /\ Len(batches) < MaxBatches
             /\ batches' = create_batch(c, now(batches), couriers[c].courier_type,
                                        batches)
             /\ procs' = [procs EXCEPT ![p].pc = "set", ![p].batch = Len(batches) + 1]
             /\ UNCHANGED <<request, response>>
        ELSE /\ procs' = [procs EXCEPT ![p] = Idle]
             /\ request' = AssignRequest(c, FALSE)
             /\ response' = [status |-> HTTP_500_INTERNAL_SERVER_ERROR,
                             orders |-> <<>>, assign_time |-> None, data |-> NoData]
             /\ UNCHANGED batches
  /\ UNCHANGED <<couriers, orders>>

\* batch.orders.set(taken_orders); batch.save()
AssignSet(p) ==
  /\ procs[p].pc = "set"
  /\ orders' = set_orders(procs[p].batch, Range(procs[p].taken_orders), orders)
  /\ procs' = [procs EXCEPT ![p].pc = "respond"]
  /\ UNCHANGED <<couriers, batches, request, response>>

\* serializer.data: the orders of the batch cached on the courier instance
AssignRespond(p) ==
  /\ procs[p].pc = "respond"
  /\ request' = AssignRequest(procs[p].courier_id, FALSE)
  /\ \E s \in all(incomplete_orders(procs[p].batch, orders)) :
       response' = [status |-> HTTP_200_OK, orders |-> s,
                    assign_time |-> batches[procs[p].batch].assign_time,
                    data |-> NoData]
  /\ procs' = [procs EXCEPT ![p] = Idle]
  /\ UNCHANGED <<couriers, orders, batches>>

NextC ==
  \/ \E p \in Procs : \E c \in Couriers : AssignCheck(p, c)
  \/ \E p \in Procs : AssignTake(p)
  \/ \E p \in Procs : AssignCreate(p)
  \/ \E p \in Procs : AssignSet(p)
  \/ \E p \in Procs : AssignRespond(p)
  \/ \E o \in Orders : \E c \in Couriers : CompleteOrder(o, c, MaxTime)

\* interleaved Assign requests, with completions between their statements
SpecC == Init /\ [][NextC]_vars

\* --------------------------- interleaved CompleteOrder and update requests
\* A CompleteOrder request p loads the order and its batch (get_object and
\* validate_courier_id), saves the order (super().update) and then runs the
\* "last order" query and closes the batch; an update request p saves the
\* profile, drops the orders of other regions and fetches `orders`, and then
\* runs the loops over the fetched rows.  Every statement commits on its own,
\* and save() writes the row as the request loaded it.
CompleteRequest(order, courier_id, complete_time) ==
  [op |-> "complete", courier_id |-> courier_id, order_id |-> order,
   complete_time |-> complete_time, once_assigned |-> FALSE]

StatusResponse(status) ==
  [status |-> status, orders |-> <<>>, assign_time |-> None, data |-> NoData]

\* get_object, is_valid and the early return of CompleteSerializer.update
CompleteLoad(p, order, courier_id, complete_time) ==
  /\ procs[p].pc = "idle"
  /\ IF ~validate_courier_id(order, courier_id, orders, batches)
     THEN /\ request' = CompleteRequest(order, courier_id, complete_time)
          /\ response' = StatusResponse(HTTP_400_BAD_REQUEST)
          /\ UNCHANGED procs
     ELSE IF orders[order].complete_time # None
          THEN /\ request' = CompleteRequest(order, courier_id, complete_time)
               /\ response' = StatusResponse(HTTP_200_OK)
               /\ UNCHANGED procs
          ELSE /\ procs' = [procs EXCEPT ![p] =
                             [pc |-> "save", order_id |-> order,
                              courier_id |-> courier_id,
                              complete_time |-> complete_time,
                              batch |-> orders[order].batch,
                              loaded |-> batches[orders[order].batch]]]
               /\ UNCHANGED <<request, response>>
  /\ UNCHANGED <<couriers, orders, batches>>

\* super().update(instance, validated_data): instance.save()
CompleteSave(p) ==
  /\ procs[p].pc = "save"
  /\ orders' = [orders EXCEPT ![procs[p].order_id] =
                  [@ EXCEPT !.complete_time = procs[p].complete_time,
                            !.batch = procs[p].batch]]
  /\ procs' = [procs EXCEPT ![p].pc = "close"]
  /\ UNCHANGED <<couriers, batches, request, response>>

\* the "last order" query and batch.save() on the loaded batch
CompleteClose(p) ==
  /\ procs[p].pc = "close"
  /\ LET batch == procs[p].batch
         left == courier_incomplete_orders(procs[p].loaded.current_courier,
                                           orders, batches)
     IN batches' = IF left = {}
                   THEN close_batch(batch, [batches EXCEPT ![batch] = procs[p].loaded])
                   ELSE batches
  /\ request' = CompleteRequest(procs[p].order_id, procs[p].courier_id,
                                procs[p].complete_time)
  /\ response' = StatusResponse(HTTP_200_OK)
  /\ procs' = [procs EXCEPT ![p] = Idle]
  /\ UNCHANGED <<couriers, orders>>

\* CourierSerializer.update up to the evaluation of the `orders` queryset
UpdateFetch(p, c, courier) ==
  /\ procs[p].pc = "idle"
  /\ couriers' = [couriers EXCEPT ![c] = courier]
  /\ IF ~has_current_batch(c, batches)
     THEN /\ request' = [op |-> "update", courier_id |-> c, order_id |-> None,
                         complete_time |-> None, once_assigned |-> FALSE]
          /\ response' = [status |-> HTTP_200_OK, orders |-> <<>>,
                          assign_time |-> None,
                          data |-> courier_to_representation(c, couriers')]
          /\ UNCHANGED <<orders, procs>>
     ELSE LET batch == current_batch(c, batches)
          IN /\ orders' = drop_by_regions(batch, courier, orders)
             /\ \E seq \in order_by_weight_desc(incomplete_orders(batch, orders'),
                                                 orders') :
                  procs' = [procs EXCEPT ![p] =
                              [pc |-> "drop", courier_id |-> c, courier |-> courier,
                               batch |-> batch, fetched |-> seq]]
             /\ UNCHANGED <<request, response>>
  /\ UNCHANGED batches

\* the loops of CourierSerializer.update over the fetched rows
UpdateDrop(p) ==
  /\ procs[p].pc = "drop"
  /\ LET c == procs[p].courier_id
         res == update_batch(c, procs[p].courier, procs[p].batch, procs[p].fetched,
                             orders, batches)
     IN /\ orders' = res.orders
        /\ batches' = res.batches
        /\ request' = [op |-> "update", courier_id |-> c, order_id |-> None,
                       complete_time |-> None, once_assigned |-> FALSE]
        /\ response' = [status |-> HTTP_200_OK, orders |-> <<>>,
                        assign_time |-> None,
                        data |-> [courier_id |-> c,
                                  courier_type |-> procs[p].courier.courier_type,
                                  regions |-> procs[p].courier.regions,
                                  working_hours |-> procs[p].courier.working_hours]]
  /\ procs' = [procs EXCEPT ![p] = Idle]
  /\ UNCHANGED couriers

NextK ==
  \/ \E c \in Couriers : Assign(c)
  \/ \E p \in Procs : \E o \in Orders : \E c \in Couriers : \E t \in Times :
       CompleteLoad(p, o, c, t)
  \/ \E p \in Procs : CompleteSave(p)
  \/ \E p \in Procs : CompleteClose(p)

\* interleaved CompleteOrder requests, between sequential Assigns
SpecK == Init /\ [][NextK]_vars

NextU ==
  \/ \E c \in Couriers : Assign(c)
  \/ \E o \in Orders : \E c \in Couriers : CompleteOrder(o, c, MaxTime)
  \/ \E c \in Couriers : \E courier \in Profiles : UpdateFetch(1, c, courier)
  \/ UpdateDrop(1)

\* one update request at a time, with Assign and CompleteOrder requests
\* between its statements
SpecU == Init /\ [][NextU]_vars

TypeOK ==
  /\ couriers \in [Couriers -> Profiles]
  /\ Len(batches) <= MaxBatches
  /\ \A o \in Orders : orders[o].batch \in {None} \cup BatchIds(batches)

\* ------------------------------------------------------------ bulk creation
\* POST /couriers and POST /orders.  Under SpecB the tables couriers and
\* orders start empty and hold a row per created id.
ItemIds == {1, 2}

\* the items of a POST /couriers payload: a valid one, one with a courier_type
\* outside the choices and one with an unexpected key, for each id
CourierItems ==
  {[courier_id |-> i, courier_type |-> t, regions |-> {1}, working_hours |-> {W_AM},
    unknown_keys |-> u] :
     i \in ItemIds, t \in {FOOT}, u \in {{}}}
  \cup {[courier_id |-> i, courier_type |-> "plane", regions |-> {1},
          working_hours |-> {W_AM}, unknown_keys |-> {}] : i \in ItemIds}
  \cup {[courier_id |-> i, courier_type |-> FOOT, regions |-> {1},
          working_hours |-> {W_AM}, unknown_keys |-> {"bad_field"}] : i \in ItemIds}

\* the items of a POST /orders payload: a valid one, one with a weight above
\* the maximum and one with an unexpected key, for each id
OrderItems ==
  {[order_id |-> i, weight |-> w, region |-> 1, delivery_hours |-> {W_AM},
    unknown_keys |-> {}] : i \in ItemIds, w \in {1000, 5001}}
  \cup {[order_id |-> i, weight |-> 1000, region |-> 1, delivery_hours |-> {W_AM},
          unknown_keys |-> {"bad_field"}] : i \in ItemIds}

\* request.data['data']: lists of one or two items
Payloads(Items) == {<<x>> : x \in Items} \cup {<<x, y>> : x \in Items, y \in Items}

\* DeserializerMixin.to_internal_value for CourierShortSerializer: TRUE when
\* the item raises ValidationError (a field error, the UniqueValidator
\* against the table, or an unexpected key)
courier_item_errors(item, crs) ==
  \/ item.courier_id < 1
  \/ item.courier_id \in DOMAIN crs
  \/ item.courier_type \notin COURIER_TYPES
  \/ \E r \in item.regions : r < 1
  \/ item.unknown_keys # {}

\* the same for OrderSerializer; weight is within [0.005, 50] with two places
order_item_errors(item, ords) ==
  \/ item.order_id < 1
  \/ item.order_id \in DOMAIN ords
  \/ item.weight < 1 \/ item.weight > 50 * WeightScale
  \/ item.region < 1
  \/ item.unknown_keys # {}

\* the rows that serializer.save() creates, one per validated item
courier_rows(data) ==
  [i \in 1..Len(data) |->
     [id |-> data[i].courier_id,
      row |-> [courier_type |-> data[i].courier_type, regions |-> data[i].regions,
               working_hours |-> data[i].working_hours]]]

order_rows(data) ==
  [i \in 1..Len(data) |->
     [id |-> data[i].order_id,
      row |-> [weight |-> data[i].weight, region |-> data[i].region,
               delivery_hours |-> data[i].delivery_hours,
               complete_time |-> None, batch |-> None]]]

\* perform_create: ListSerializer.create makes one INSERT per item, each
\* committed on its own; an INSERT with a primary key that exists raises
\* IntegrityError and ends the request
RECURSIVE perform_create(_, _, _)
perform_create(rows, i, table) ==
  IF i > Len(rows) THEN [table |-> table, status |-> HTTP_201_CREATED]
  ELSE IF rows[i].id \in DOMAIN table
       THEN [table |-> table, status |-> HTTP_500_INTERNAL_SERVER_ERROR]
       ELSE perform_create(rows, i + 1,
                           [x \in DOMAIN table \cup {rows[i].id} |->
                              IF x = rows[i].id THEN rows[i].row ELSE table[x]])

\* CourierCreateView.create
CreateCouriers(data) ==
  /\ request' = [op |-> "create_couriers", data |-> data]
  /\ IF \E i \in 1..Len(data) : courier_item_errors(data[i], couriers)
     THEN /\ response' = [status |-> HTTP_400_BAD_REQUEST]
          /\ UNCHANGED couriers
     ELSE LET res == perform_create(courier_rows(data), 1, couriers)
          IN /\ couriers' = res.table
             /\ response' = [status |-> res.status]
  /\ UNCHANGED <<orders, batches, procs>>

\* OrderCreateView.create
CreateOrders(data) ==
  /\ request' = [op |-> "create_orders", data |-> data]
  /\ IF \E i \in 1..Len(data) : order_item_errors(data[i], orders)
     THEN /\ response' = [status |-> HTTP_400_BAD_REQUEST]
          /\ UNCHANGED orders
     ELSE LET res == perform_create(order_rows(data), 1, orders)
          IN /\ orders' = res.table
             /\ response' = [status |-> res.status]
  /\ UNCHANGED <<couriers, batches, procs>>

InitB ==
  /\ couriers = <<>>
  /\ orders = <<>>
  /\ batches = <<>>
  /\ request = [op |-> "none", data |-> <<>>]
  /\ response = [status |-> None]
  /\ procs = [p \in Procs |-> Idle]

NextB ==
  \/ \E data \in Payloads(CourierItems) : CreateCouriers(data)
  \/ \E data \in Payloads(OrderItems) : CreateOrders(data)

\* bulk creation into empty tables
SpecB == InitB /\ [][NextB]_vars

\* ------------------------------------------------------- loops, step by step
\* One request at a time (process 1), with the three loops of the program
\* run one iteration per step: the candidate scan of AssignSerializer.save
\* and the two loops of CourierSerializer.update over the fetched `orders`.
\* `i` is the position of the loop in the fetched rows.
UpdateRequest(c) ==
  [op |-> "update", courier_id |-> c, order_id |-> None, complete_time |-> None,
   once_assigned |-> FALSE]

UpdateResponse(c, crs) ==
  [status |-> HTTP_200_OK, orders |-> <<>>, assign_time |-> None,
   data |-> courier_to_representation(c, crs)]

\* AssignSerializer.save up to the evaluation of the candidate queryset
AssignBegin(c) ==
  /\ procs[1].pc = "idle"
  /\ IF has_current_batch(c, batches)
     THEN /\ request' = AssignRequest(c, TRUE)
          /\ response' \in AssignResponses(c, orders, batches)
          /\ UNCHANGED procs
     ELSE /\ Len(batches) < MaxBatches
          /\ \E seq \in order_by_weight(candidates(couriers[c], orders), orders) :
               procs' = [procs EXCEPT ![1] =
                           [pc |-> "scan", courier_id |-> c, fetched |-> seq, i |-> 1,
                            total_weight |-> 0, taken_orders |-> <<>>]]
          /\ UNCHANGED <<request, response>>
  /\ UNCHANGED <<couriers, orders, batches>>

\* one iteration of the "take orders" loop, or its end
ScanStep ==
  /\ procs[1].pc = "scan"
  /\ LET st == procs[1]
         courier == couriers[st.courier_id]
     IN IF st.i > Len(st.fetched)
        THEN procs' = [procs EXCEPT ![1].pc = "create"]
        ELSE LET order == st.fetched[st.i]
             IN IF ~has_intersection(orders[order].delivery_hours, courier.working_hours)
                THEN procs' = [procs EXCEPT ![1].i = st.i + 1]
                ELSE IF st.total_weight + orders[order].weight <= capacity(courier)
                     THEN procs' = [procs EXCEPT
                                      ![1].i = st.i + 1,
                                      ![1].total_weight = st.total_weight + orders[order].weight,
                                      ![1].taken_orders = Append(st.taken_orders, order)]
                     ELSE procs' = [procs EXCEPT ![1].pc = "create"]
  /\ UNCHANGED <<couriers, orders, batches, request, response>>

\* the rest of AssignSerializer.save and the response
AssignFinish ==
  /\ procs[1].pc = "create"
  /\ LET st == procs[1]
         c == st.courier_id
     IN /\ IF st.total_weight = 0
           THEN UNCHANGED <<orders, batches>>
           ELSE /\ batches' = create_batch(c, now(batches), couriers[c].courier_type,
                                           batches)
                /\ orders' = set_orders(Len(batches) + 1, Range(st.taken_orders), orders)
        /\ request' = AssignRequest(c, FALSE)
        /\ response' \in AssignResponses(c, orders', batches')
  /\ procs' = [procs EXCEPT ![1] = Idle]
  /\ UNCHANGED couriers

\* CourierSerializer.update up to the evaluation of the `orders` queryset
UpdateBegin(c, courier) ==
  /\ procs[1].pc = "idle"
  /\ couriers' = [couriers EXCEPT ![c] = courier]
  /\ IF ~has_current_batch(c, batches)
     THEN /\ request' = UpdateRequest(c)
          /\ response' = UpdateResponse(c, couriers')
          /\ UNCHANGED <<orders, procs>>
     ELSE LET batch == current_batch(c, batches)
          IN /\ orders' = drop_by_regions(batch, courier, orders)
             /\ \E seq \in order_by_weight_desc(incomplete_orders(batch, orders'),
                                                 orders') :
                  procs' = [procs EXCEPT ![1] =
                              [pc |-> "hours", courier_id |-> c, batch |-> batch,
                               fetched |-> seq, i |-> 1]]
             /\ UNCHANGED <<request, response>>
  /\ UNCHANGED batches

\* one iteration of the loop that drops orders with a non-matching schedule;
\* at its end the first "cancel the batch" block and the weight test
HoursStep ==
  /\ procs[1].pc = "hours"
  /\ LET st == procs[1]
         c == st.courier_id
     IN IF st.i > Len(st.fetched)
        THEN /\ batches' = cancel_if_empty(st.batch, orders, batches)
             /\ IF capacity(couriers[c]) >= total_weight(c, orders, batches')
                THEN /\ procs' = [procs EXCEPT ![1] = Idle]
                     /\ request' = UpdateRequest(c)
                     /\ response' = UpdateResponse(c, couriers)
                ELSE /\ procs' = [procs EXCEPT ![1].pc = "heavy", ![1].i = 1]
                     /\ UNCHANGED <<request, response>>
             /\ UNCHANGED orders
        ELSE LET order == st.fetched[st.i]
             IN /\ orders' = IF ~has_intersection(orders[order].delivery_hours,
                                                  couriers[c].working_hours)
                              THEN save_dropped(order, orders)
                              ELSE orders
                /\ procs' = [procs EXCEPT ![1].i = st.i + 1]
                /\ UNCHANGED <<batches, request, response>>
  /\ UNCHANGED couriers

\* mutant: a while loop that drops orders.first() of the cached queryset
heavy_iteration_first(seq, i, c, courier, ords, bats) ==
  LET dropped == save_dropped(seq[1], ords)
  IN [orders |-> dropped, i |-> i,
      break |-> capacity(courier) >= total_weight(c, dropped, bats)]

\* one iteration of the loop that drops orders that are too heavy
heavy_iteration(seq, i, c, courier, ords, bats) ==
  LET dropped == save_dropped(seq[i], ords)
  IN [orders |-> dropped, i |-> i + 1,
      break |-> capacity(courier) >= total_weight(c, dropped, bats)]

\* one iteration of the weight loop; at its end the second "cancel the
\* batch" block and the response
HeavyStep ==
  /\ procs[1].pc = "heavy"
  /\ LET st == procs[1]
         c == st.courier_id
     IN IF st.i > Len(st.fetched)
        THEN /\ batches' = cancel_if_empty(st.batch, orders, batches)
             /\ procs' = [procs EXCEPT ![1] = Idle]
             /\ request' = UpdateRequest(c)
             /\ response' = UpdateResponse(c, couriers)
             /\ UNCHANGED orders
        ELSE LET it == heavy_iteration(st.fetched, st.i, c, couriers[c], orders, batches)
             IN /\ orders' = it.orders
                /\ IF it.break
                   THEN /\ batches' = cancel_if_empty(st.batch, orders', batches)
                        /\ procs' = [procs EXCEPT ![1] = Idle]
                        /\ request' = UpdateRequest(c)
                        /\ response' = UpdateResponse(c, couriers)
                   ELSE /\ procs' = [procs EXCEPT ![1].i = it.i]
                        /\ UNCHANGED <<batches, request, response>>
  /\ UNCHANGED couriers

\* a CompleteOrder request between two other requests
CompleteBetween(order, courier_id) ==
  /\ procs[1].pc = "idle"
  /\ CompleteOrder(order, courier_id, MaxTime)

\* the steps of a request that has begun
LoopSteps == ScanStep \/ AssignFinish \/ HoursStep \/ HeavyStep

NextL ==
  \/ \E c \in Couriers : AssignBegin(c)
  \/ ScanStep
  \/ AssignFinish
  \/ \E c \in Couriers : \E courier \in Profiles : UpdateBegin(c, courier)
  \/ HoursStep
  \/ HeavyStep
  \/ \E o \in Orders : \E c \in Couriers : CompleteBetween(o, c)

\* sequential requests with their loops run step by step; a request that has
\* begun keeps running (each of its steps changes procs)
SpecL == Init /\ [][NextL]_vars /\ WF_procs(LoopSteps)

\* ------------------------------------------------------------ time windows
\* A time "HH:MM" as the string the program stores: its four digits.  A
\* window "HH:MM-HH:MM" is the pair of its two times, as split('-') gives.
T0930 == <<0, 9, 3, 0>>
T1000 == <<1, 0, 0, 0>>
T1200 == <<1, 2, 0, 0>>
T1800 == <<1, 8, 0, 0>>
T2400 == <<2, 4, 0, 0>>

\* the times that pass TimeRangeField, and the windows made of them
ValidTimeStrings == {T0930, T1000, T1200, T1800}
StoredWindows == ValidTimeStrings \X ValidTimeStrings

\* lists of at most two windows, without repetition
WindowLists == {{}} \cup {{w} : w \in StoredWindows}
               \cup {{v, w} : v \in StoredWindows, w \in StoredWindows}

\* Python's < on two strings of digits of the same length
RECURSIVE str_lt(_, _)
str_lt(a, b) ==
  IF a = <<>> \/ b = <<>> THEN a = <<>> /\ b # <<>>
  ELSE IF Head(a) # Head(b) THEN Head(a) < Head(b)
  ELSE str_lt(Tail(a), Tail(b))

\* mutant: the comparisons are <= and >=
has_intersection_str_closed(time_ranges_1, time_ranges_2) ==
  \E i \in time_ranges_1 : \E j \in time_ranges_2 :
    LET start1 == j[1]
        end1 == j[2]
        start2 == i[1]
        end2 == i[2]
    IN ~str_lt(end2, start1) /\ ~str_lt(end1, start2)

\* has_intersection on the stored strings
has_intersection_str(time_ranges_1, time_ranges_2) ==
  \E i \in time_ranges_1 : \E j \in time_ranges_2 :
    LET start1 == j[1]
        end1 == j[2]
        start2 == i[1]
        end2 == i[2]
    IN str_lt(start1, end2) /\ str_lt(start2, end1)

\* a call of has_intersection whose arguments the initial state holds
InitI ==
  /\ couriers = <<>>
  /\ orders = <<>>
  /\ batches = <<>>
  /\ \E A \in WindowLists : \E B \in WindowLists :
       request = [op |-> "has_intersection", time_ranges_1 |-> A, time_ranges_2 |-> B]
  /\ response = [status |-> None]
  /\ procs = [p \in Procs |-> Idle]

Intersect ==
  /\ response.status = None
  /\ response' = [status |-> HTTP_200_OK,
                  result |-> has_intersection_str(request.time_ranges_1,
                                                  request.time_ranges_2)]
  /\ UNCHANGED <<couriers, orders, batches, request, procs>>

NextI == Intersect

\* has_intersection applied to lists of stored windows
SpecI == InitI /\ [][NextI]_vars

\* the items of a submitted working_hours or delivery_hours list: a value
\* that is not a string, a string of another format, and the strings
\* HH:MM-HH:MM over three times, one of them out of range
WindowInputs ==
  {[type |-> "int"], [type |-> "str", format |-> FALSE]}
  \cup {[type |-> "str", format |-> TRUE, times |-> w] :
          w \in {T1000, T1800, T2400} \X {T1000, T1800, T2400}}

\* TimeRangeField.to_internal_value: TRUE when it raises ValidationError
TimeRangeField_errors(data) ==
  IF data.type # "str" THEN TRUE
  ELSE IF ~data.format THEN TRUE
  ELSE \E t \in {data.times[1], data.times[2]} :
         LET hh == t[1] * 10 + t[2]
             mm == t[3] * 10 + t[4]
         IN hh > 23 \/ hh < 0 \/ mm < 0 \/ mm > 59

HoursRequest(op, data) == [op |-> op, hours |-> data]

\* POST /couriers with one item for courier 1 whose working_hours is [data]
CreateCourierHours(data) ==
  /\ request' = HoursRequest("create_courier", data)
  /\ IF 1 \in DOMAIN couriers \/ TimeRangeField_errors(data)
     THEN /\ response' = [status |-> HTTP_400_BAD_REQUEST]
          /\ UNCHANGED couriers
     ELSE /\ response' = [status |-> HTTP_201_CREATED]
          /\ couriers' = <<[courier_type |-> FOOT, regions |-> {1},
                            working_hours |-> {data.times}]>>
  /\ UNCHANGED <<orders, batches, procs>>

\* PATCH /couriers/1 with working_hours [data]; the courier has no batch
UpdateCourierHours(data) ==
  /\ 1 \in DOMAIN couriers
  /\ request' = HoursRequest("update_courier", data)
  /\ IF TimeRangeField_errors(data)
     THEN /\ response' = [status |-> HTTP_400_BAD_REQUEST]
          /\ UNCHANGED couriers
     ELSE /\ response' = [status |-> HTTP_200_OK]
          /\ couriers' = [couriers EXCEPT ![1].working_hours = {data.times}]
  /\ UNCHANGED <<orders, batches, procs>>

\* POST /orders with one item for order 1 whose delivery_hours is [data]
CreateOrderHours(data) ==
  /\ request' = HoursRequest("create_order", data)
  /\ IF 1 \in DOMAIN orders \/ TimeRangeField_errors(data)
     THEN /\ response' = [status |-> HTTP_400_BAD_REQUEST]
          /\ UNCHANGED orders
     ELSE /\ response' = [status |-> HTTP_201_CREATED]
          /\ orders' = <<[weight |-> 1000, region |-> 1,
                          delivery_hours |-> {data.times},
                          complete_time |-> None, batch |-> None]>>
  /\ UNCHANGED <<couriers, batches, procs>>

InitW ==
  /\ couriers = <<>>
  /\ orders = <<>>
  /\ batches = <<>>
  /\ request = HoursRequest("none", [type |-> "int"])
  /\ response = [status |-> None]
  /\ procs = [p \in Procs |-> Idle]

NextW ==
  \/ \E data \in WindowInputs : CreateCourierHours(data)
  \/ \E data \in WindowInputs : UpdateCourierHours(data)
  \/ \E data \in WindowInputs : CreateOrderHours(data)

\* the validation of submitted time windows
SpecW == InitW /\ [][NextW]_vars

\* ================================================================= claims
Unassigned(o) == orders[o].batch = None /\ orders[o].complete_time = None
Matches(o, c) ==
  /\ orders[o].region \in couriers[c].regions
  /\ has_intersection(orders[o].delivery_hours, couriers[c].working_hours)
OpenBatches(c) == {b \in BatchIds(batches) : batches[b].current_courier = c}
OpenWeight(c) ==
  SumWeights({o \in Orders : /\ orders[o].batch \in OpenBatches(c)
                             /\ orders[o].complete_time = None}, orders)

\* C1: for every courier with an OPEN batch, the weights of the incomplete
\* orders bound to that batch sum to at most the capacity of the courier's
\* current type.
C1_WeightWithinCapacity ==
  \A c \in Couriers :
    OpenBatches(c) # {} =>
      OpenWeight(c) <= COURIER_CAPACITIES[couriers[c].courier_type] * WeightScale

\* a profile update has just evicted for weight: the courier keeps an OPEN
\* batch and a matching order is unassigned that no longer fits
C1_Witness ==
  \E c \in Couriers :
    /\ request.op = "update" /\ request.courier_id = c
    /\ OpenBatches(c) # {}
    /\ OpenWeight(c) > 0
    /\ \E o \in Orders :
         /\ Unassigned(o) /\ Matches(o, c)
         /\ OpenWeight(c) + orders[o].weight
              > COURIER_CAPACITIES[couriers[c].courier_type] * WeightScale

\* C2: every incomplete order bound to a courier's OPEN batch has its region
\* in the courier's regions and delivery_hours that intersect the courier's
\* working_hours.
C2_OrdersMatchProfile ==
  \A c \in Couriers : \A o \in Orders :
    (orders[o].batch \in OpenBatches(c) /\ orders[o].complete_time = None)
      => Matches(o, c)

\* a profile update has just evicted an order for its region and another for
\* its hours, and kept one
C2_Witness ==
  \E c \in Couriers :
    /\ request.op = "update" /\ request.courier_id = c
    /\ \E o \in Orders : orders[o].batch \in OpenBatches(c)
                         /\ orders[o].complete_time = None
    /\ \E o \in Orders : Unassigned(o) /\ orders[o].region \notin couriers[c].regions
    /\ \E o \in Orders :
         /\ Unassigned(o) /\ orders[o].region \in couriers[c].regions
         /\ ~has_intersection(orders[o].delivery_hours, couriers[c].working_hours)

\* C3: each courier is the current_courier of at most one batch, also when
\* Assign requests for the same courier interleave.
C3_OneOpenBatchPerCourier ==
  \A c \in Couriers : Cardinality(OpenBatches(c)) <= 1

\* an Assign request lost the race: its INSERT was refused while the courier
\* holds the batch the other request created
C3_Witness ==
  /\ request.op = "assign"
  /\ response.status = HTTP_500_INTERNAL_SERVER_ERROR
  /\ OpenBatches(request.courier_id) # {}

\* C4: once an order's complete_time is set, no later call changes the
\* order's batch link or its complete_time.
C4_CompletedOrderFrozen ==
  [][\A o \in Orders :
       orders[o].complete_time # None =>
         /\ orders'[o].batch = orders[o].batch
         /\ orders'[o].complete_time = orders[o].complete_time]_vars

\* a profile update has evicted an order from an OPEN batch that also holds a
\* completed order
C4_Witness ==
  \E c \in Couriers : \E o \in Orders :
    /\ request.op = "update" /\ request.courier_id = c
    /\ orders[o].batch \in OpenBatches(c)
    /\ orders[o].complete_time # None
    /\ ~Matches(o, c)

\* C5: every batch is OPEN, CLOSED or CANCELED; no batch has both
\* current_courier and past_courier set.
C5_BatchStates ==
  \A b \in BatchIds(batches) :
    /\ ~(batches[b].current_courier # None /\ batches[b].past_courier # None)
    /\ Cardinality({st \in {"open", "closed", "canceled"} :
                      \/ st = "open" /\ IsOpen(b, batches)
                      \/ st = "closed" /\ IsClosed(b, batches)
                      \/ st = "canceled" /\ IsCanceled(b, batches)}) = 1

\* the three states at work: a CLOSED batch next to a CANCELED one
C5_Witness ==
  /\ \E b \in BatchIds(batches) : IsClosed(b, batches)
  /\ \E b \in BatchIds(batches) : IsCanceled(b, batches)

\* C6: a batch that is CLOSED or CANCELED never changes its current_courier
\* or past_courier again, an OPEN batch only stays as it is or becomes CLOSED
\* or CANCELED, and only UpdateCourierProfile cancels.
C6_BatchLifecycle ==
  [][\A b \in BatchIds(batches) :
       /\ ~IsOpen(b, batches) =>
            /\ batches'[b].current_courier = batches[b].current_courier
            /\ batches'[b].past_courier = batches[b].past_courier
       /\ IsOpen(b, batches) =>
            \/ /\ IsOpen(b, batches')
               /\ batches'[b].current_courier = batches[b].current_courier
            \/ IsClosed(b, batches')
            \/ IsCanceled(b, batches')
       /\ (IsOpen(b, batches) /\ IsCanceled(b, batches')) => request'.op = "update"]_vars

\* a courier's batch was canceled, and the courier has since been assigned
\* and has completed another batch
C6_Witness ==
  \E b1, b2 \in BatchIds(batches) :
    /\ b1 < b2
    /\ IsCanceled(b1, batches)
    /\ IsClosed(b2, batches)
    /\ request.op = "complete" /\ response.status = HTTP_200_OK

OtherIncomplete(o) ==
  {x \in Orders \ {o} : orders[x].batch = orders[o].batch /\ orders[x].complete_time = None}

\* C7: the first completion of an order of an OPEN batch closes the batch
\* (past_courier := the courier, current_courier := null) exactly when no
\* other order of the batch is incomplete; otherwise the batch is unchanged.
C7_CloseOnLastOrder ==
  [][\A o \in Orders :
       ( /\ request'.op = "complete" /\ request'.order_id = o
         /\ response'.status = HTTP_200_OK
         /\ orders[o].complete_time = None
         /\ orders[o].batch # None
         /\ IsOpen(orders[o].batch, batches) )
       => LET b == orders[o].batch
          IN IF OtherIncomplete(o) = {}
             THEN /\ batches'[b].past_courier = batches[b].current_courier
                  /\ batches'[b].current_courier = None
             ELSE batches'[b] = batches[b]]_vars

\* the last of several orders of a batch has just been completed
C7_Witness ==
  /\ request.op = "complete" /\ response.status = HTTP_200_OK
  /\ LET b == orders[request.order_id].batch
     IN /\ b # None
        /\ IsClosed(b, batches)
        /\ Cardinality(batch_orders(b, orders)) >= 2

CorrectCourier(o, c) ==
  /\ orders[o].batch # None
  /\ c \in {batches[orders[o].batch].current_courier,
            batches[orders[o].batch].past_courier}

\* C8: completing an already completed order with the correct courier id
\* succeeds and changes neither the order's complete_time nor any batch.
C8_CompleteIdempotent ==
  [][\A o \in Orders :
       ( /\ request'.op = "complete" /\ request'.order_id = o
         /\ orders[o].complete_time # None
         /\ CorrectCourier(o, request'.courier_id) )
       => /\ response'.status = HTTP_200_OK
          /\ orders' = orders
          /\ batches' = batches]_vars

\* a second completion with another timestamp has been answered
C8_Witness ==
  /\ request.op = "complete" /\ response.status = HTTP_200_OK
  /\ orders[request.order_id].complete_time # request.complete_time

\* C9: CompleteOrder answers "order not assigned" when the order has no batch
\* or the claimed courier id is neither the batch's current nor its past
\* courier, and then changes no order and no batch.
C9_NotAssignedRejected ==
  [][\A o \in Orders :
       ( /\ request'.op = "complete" /\ request'.order_id = o
         /\ ~CorrectCourier(o, request'.courier_id) )
       => /\ response'.status = HTTP_400_BAD_REQUEST
          /\ orders' = orders
          /\ batches' = batches]_vars

\* a completion claimed by a courier that does not hold the order's batch
\* has been rejected
C9_Witness ==
  /\ request.op = "complete" /\ response.status = HTTP_400_BAD_REQUEST
  /\ orders[request.order_id].batch # None
  /\ orders[request.order_id].complete_time = None

\* C10: Assign for a courier that has an OPEN batch succeeds and changes no
\* order, no batch and no courier.
C10_AssignNoOp ==
  [][\A c \in Couriers :
       ( /\ request'.op = "assign" /\ request'.courier_id = c
         /\ OpenBatches(c) # {} )
       => /\ response'.status = HTTP_200_OK
          /\ UNCHANGED <<couriers, orders, batches>>]_vars

\* Assign has answered for a courier with an OPEN batch while a matching
\* unassigned order would still fit
C10_Witness ==
  \E c \in Couriers :
    /\ request.op = "assign" /\ request.courier_id = c
    /\ response.status = HTTP_200_OK
    /\ OpenBatches(c) # {}
    /\ \E o \in Orders :
         /\ Unassigned(o) /\ Matches(o, c)
         /\ OpenWeight(c) + orders[o].weight
              <= COURIER_CAPACITIES[couriers[c].courier_type] * WeightScale

\* two Assign requests for courier c in succession: the last answered request
\* was an Assign for c and this step is one too
AssignAgain(c) ==
  /\ request.op = "assign" /\ request.courier_id = c
  /\ response.status = HTTP_200_OK
  /\ request'.op = "assign" /\ request'.courier_id = c

\* C11 as stated: calling Assign twice in succession for the same courier
\* with no intervening state change yields an empty result (no orders) the
\* second time.
C11_SecondAssignEmpty ==
  [][\A c \in Couriers : AssignAgain(c) => response'.orders = <<>>]_vars

\* C11, amended: the second of two Assign calls in succession for the same
\* courier changes no courier, order or batch and returns the same order ids
\* and the same assign_time as the first (empty only when the first was).
C11_SecondAssignSame ==
  [][\A c \in Couriers :
       AssignAgain(c) =>
         /\ response'.status = HTTP_200_OK
         /\ Range(response'.orders) = Range(response.orders)
         /\ response'.assign_time = response.assign_time
         /\ UNCHANGED <<couriers, orders, batches>>]_vars

\* the only batch was created by an Assign that took two orders; no order has
\* been completed or evicted, and Assign has answered again with both orders
C11_Witness ==
  /\ request.op = "assign" /\ request.once_assigned
  /\ Len(batches) = 1
  /\ batches[1].current_courier = request.courier_id
  /\ \A o \in Orders : orders[o].complete_time = None
  /\ Cardinality(batch_orders(1, orders)) >= 2
  /\ Range(response.orders) = batch_orders(1, orders)

\* C12: when Assign is called for a courier that already has an OPEN batch,
\* the response lists exactly the ids of that batch's still incomplete orders,
\* each once and no completed one, with the batch's assign_time.
C12_AssignListsOpenBatch ==
  [][\A c \in Couriers : \A b \in OpenBatches(c) :
       (request'.op = "assign" /\ request'.courier_id = c) =>
         LET left == {o \in Orders : orders[o].batch = b /\ orders[o].complete_time = None}
         IN /\ Range(response'.orders) = left
            /\ Len(response'.orders) = Cardinality(left)
            /\ response'.assign_time = batches[b].assign_time]_vars

\* Assign has answered for a courier whose batch holds a completed order next
\* to incomplete ones
C12_Witness ==
  \E c \in Couriers : \E b \in OpenBatches(c) :
    /\ request.op = "assign" /\ request.courier_id = c /\ request.once_assigned
    /\ \E o \in batch_orders(b, orders) : orders[o].complete_time # None
    /\ response.orders # <<>>
    /\ response.assign_time = batches[b].assign_time

\* the unassigned, incomplete orders that match courier c's regions and hours
Matching(c) == {o \in Orders : Unassigned(o) /\ Matches(o, c)}

\* C13: when Assign accepts zero orders (no candidate matches region and
\* hours, or the lightest matching candidate exceeds capacity), it returns an
\* empty order list with no assign_time, creates no batch and binds no order,
\* and the courier still has no OPEN batch.
C13_NothingAccepted ==
  [][\A c \in Couriers :
       ( /\ request'.op = "assign" /\ request'.courier_id = c
         /\ OpenBatches(c) = {}
         /\ \A o \in Matching(c) :
              orders[o].weight > COURIER_CAPACITIES[couriers[c].courier_type] * WeightScale )
       => /\ response'.status = HTTP_200_OK
          /\ response'.orders = <<>>
          /\ response'.assign_time = None
          /\ batches' = batches
          /\ orders' = orders
          /\ \A b \in BatchIds(batches') : batches'[b].current_courier # c]_vars

\* Assign has answered with nothing for a courier without an OPEN batch while
\* a matching order is waiting that is heavier than the courier's capacity
C13_Witness ==
  \E c \in Couriers :
    /\ request.op = "assign" /\ request.courier_id = c
    /\ response.status = HTTP_200_OK /\ response.orders = <<>>
    /\ OpenBatches(c) = {}
    /\ \E o \in Matching(c) :
         orders[o].weight > COURIER_CAPACITIES[couriers[c].courier_type] * WeightScale

\* C14: the order ids returned by a successful Assign (one that created a
\* batch) are listed in ascending order of order weight.
C14_AscendingWeight ==
  (request.op = "assign" /\ ~request.once_assigned /\ response.status = HTTP_200_OK)
    => \A i, j \in 1..Len(response.orders) :
         i < j => orders[response.orders[i]].weight <= orders[response.orders[j]].weight

\* the incomplete orders of batch b that do not match courier c's new profile
Violating(b, c) ==
  {o \in Orders :
     /\ orders[o].batch = b /\ orders[o].complete_time = None
     /\ ~( /\ orders[o].region \in couriers'[c].regions
           /\ has_intersection(orders[o].delivery_hours, couriers'[c].working_hours) )}

\* the incomplete orders of batch b that match courier c's new profile
Remaining(b, c) ==
  {o \in Orders : orders[o].batch = b /\ orders[o].complete_time = None} \ Violating(b, c)

\* C15: after UpdateCourierProfile on a courier with an OPEN batch whose
\* remaining weight fits the new capacity, the orders detached from the batch
\* are exactly the incomplete orders whose region is not in the new regions or
\* whose delivery_hours do not intersect the new working_hours; every other
\* order keeps its batch.
C15_EvictsExactlyViolating ==
  [][\A c \in Couriers : \A b \in OpenBatches(c) :
       ( /\ request'.op = "update" /\ request'.courier_id = c
         /\ SumWeights(Remaining(b, c), orders)
              <= COURIER_CAPACITIES[couriers'[c].courier_type] * WeightScale )
       => /\ {o \in Orders : orders[o].batch = b /\ orders'[o].batch # b} = Violating(b, c)
          /\ \A o \in Orders \ Violating(b, c) : orders'[o] = orders[o]
          /\ \A o \in Violating(b, c) : orders'[o].batch = None]_vars

\* a profile update has evicted an order for its hours from a batch that
\* keeps an incomplete order and a completed one
C15_Witness ==
  \E c \in Couriers : \E b \in OpenBatches(c) :
    /\ request.op = "update" /\ request.courier_id = c
    /\ \E o \in batch_orders(b, orders) : orders[o].complete_time = None
    /\ \E o \in batch_orders(b, orders) : orders[o].complete_time # None
    /\ \E o \in Orders :
         /\ Unassigned(o) /\ orders[o].region \in couriers[c].regions
         /\ ~has_intersection(orders[o].delivery_hours, couriers[c].working_hours)

\* the orders of Remaining(b, c) that the step leaves in batch b
Kept(b, c) == {o \in Remaining(b, c) : orders'[o].batch = b}

\* C16: after the region and hours eviction of UpdateCourierProfile, if the
\* remaining incomplete weight is within the new type's capacity no further
\* order is evicted; otherwise remaining orders are evicted heaviest first and
\* eviction stops as soon as the rest fits: the rest is within capacity, no
\* evicted order is lighter than a kept one, and the rest together with the
\* last (lightest) evicted order would exceed the capacity.
C16_HeaviestFirstUntilFit ==
  [][\A c \in Couriers : \A b \in OpenBatches(c) :
       (request'.op = "update" /\ request'.courier_id = c) =>
         LET cap == COURIER_CAPACITIES[couriers'[c].courier_type] * WeightScale
             evicted == Remaining(b, c) \ Kept(b, c)
         IN IF SumWeights(Remaining(b, c), orders) <= cap
            THEN evicted = {}
            ELSE /\ evicted # {}
                 /\ \A e \in evicted : orders'[e].batch = None
                 /\ SumWeights(Kept(b, c), orders) <= cap
                 /\ \A e \in evicted : \A k \in Kept(b, c) :
                      orders[e].weight >= orders[k].weight
                 /\ \E e \in evicted :
                      /\ \A x \in evicted : orders[e].weight <= orders[x].weight
                      /\ SumWeights(Kept(b, c), orders) + orders[e].weight > cap]_vars

\* the only batch was assigned to a car that took every order; the courier,
\* updated to foot, has lost two orders of different weights that match its
\* profile and keeps one
C16_Witness ==
  \E c \in Couriers : \E b \in OpenBatches(c) :
    /\ request.op = "update" /\ request.courier_id = c
    /\ Len(batches) = 1
    /\ batches[b].assign_type = CAR /\ couriers[c].courier_type = FOOT
    /\ \A o \in Orders : orders[o].complete_time = None
    /\ \E k \in Orders : orders[k].batch = b /\ orders[k].complete_time = None
    /\ \E e1, e2 \in Orders :
         /\ orders[e1].weight > orders[e2].weight
         /\ Unassigned(e1) /\ Matches(e1, c)
         /\ Unassigned(e2) /\ Matches(e2, c)

\* the CLOSED batches of courier c that were assigned to it as type t
ClosedAs(c, t) ==
  {b \in BatchIds(batches) :
     IsClosed(b, batches) /\ batches[b].past_courier = c /\ batches[b].assign_type = t}

\* C17: a courier's earnings are the sum over its CLOSED batches of
\* paymentRate[batch.assign_type] x 500 with rates foot 2, bike 5, car 9; OPEN
\* and CANCELED batches contribute nothing, the rate is the one of the type
\* stored in the batch, whatever the courier's type is now, and the earnings
\* are 0 when there is no closed batch.
C17_Earnings ==
  \A c \in Couriers :
    get_earnings(c, batches) =
      500 * ( 2 * Cardinality(ClosedAs(c, FOOT))
            + 5 * Cardinality(ClosedAs(c, BIKE))
            + 9 * Cardinality(ClosedAs(c, CAR)) )

\* a courier has a CLOSED batch assigned under another type than it has now,
\* next to an OPEN batch
C17_Witness ==
  \E c \in Couriers : \E b \in BatchIds(batches) :
    /\ IsClosed(b, batches) /\ batches[b].past_courier = c
    /\ batches[b].assign_type # couriers[c].courier_type
    /\ OpenBatches(c) # {}
    /\ get_earnings(c, batches) = COURIER_PAYMENT_RATES[batches[b].assign_type] * 500

\* C18: the rating is absent from the courier detail output exactly when the
\* courier has no CLOSED batch (OPEN and CANCELED batches give no rating);
\* with a CLOSED batch a rating is present, also when its value is zero.
C18_RatingPresence ==
  \A c \in Couriers : \A walks \in Walks(c, orders, batches) :
    LET ret == detail_to_representation(c, walks, couriers, orders, batches)
    IN /\ "rating" \in DOMAIN ret
            <=> (\E b \in BatchIds(batches) : IsClosed(b, batches) /\ batches[b].past_courier = c)
       /\ "rating" \in DOMAIN ret => ret.rating # NoRating

\* one courier has a CLOSED batch with the rating zero, the other has only an
\* OPEN batch and no rating
C18_Witness ==
  \E c1, c2 \in Couriers :
    /\ past_batches(c1, batches) # {}
    /\ \A walks \in Walks(c1, orders, batches) : get_rating(c1, walks, orders, batches) = 0
    /\ OpenBatches(c2) # {} /\ past_batches(c2, batches) = {}
    /\ \A walks \in Walks(c2, orders, batches) :
         "rating" \notin DOMAIN detail_to_representation(c2, walks, couriers, orders, batches)

\* the walks of courier c's past batches that take the orders of each batch
\* in ascending complete_time order
AscendingWalks(c) ==
  {w \in Walks(c, orders, batches) :
     \A b \in past_batches(c, batches) : \A i, j \in 1..Len(w[b]) :
       i < j => orders[w[b][i]].complete_time <= orders[w[b][j]].complete_time}

\* C19: the rating is the one computed from the samples taken per CLOSED
\* batch by walking its orders in ascending complete_time order (first
\* complete_time minus assign_time, then complete_time minus the previous
\* order's complete_time), grouped by region, t the minimum of the region
\* means and rating = (3600 - min(t, 3600)) / 3600 x 5: in whatever order the
\* rows of a batch come, the computed rating is that of an ascending walk.
C19_RatingSamples ==
  \A c \in Couriers : \A walks \in Walks(c, orders, batches) :
    \E ascending \in AscendingWalks(c) :
      get_rating(c, walks, orders, batches) = get_rating(c, ascending, orders, batches)

\* C20: a courier detail read (GET of the courier resource) returns the
\* courier's profile together with an earnings field, and a rating field when
\* one is defined, as CourierDetailSerializer computes them.
C20_DetailRead ==
  (request.op = "retrieve" /\ response.status = HTTP_200_OK) =>
    LET c == request.courier_id
    IN /\ {"courier_id", "courier_type", "regions", "working_hours", "earnings"}
            \subseteq DOMAIN response.data
       /\ response.data.earnings = get_earnings(c, batches)
       /\ past_batches(c, batches) # {} =>
            /\ "rating" \in DOMAIN response.data
            /\ \E walks \in Walks(c, orders, batches) :
                 response.data.rating = get_rating(c, walks, orders, batches)

\* the identifiers of the items of the posted list
PostedIds ==
  {IF request'.op = "create_couriers" THEN request'.data[i].courier_id
   ELSE request'.data[i].order_id : i \in 1..Len(request'.data)}

\* some item of the posted list is rejected: an invalid field, an unexpected
\* key, an identifier of an existing record or of another item of the list
SomeItemRejected ==
  LET data == request'.data
  IN \/ \E i \in 1..Len(data) :
          IF request'.op = "create_couriers"
          THEN \/ data[i].courier_type \notin {FOOT, BIKE, CAR}
               \/ data[i].unknown_keys # {}
               \/ data[i].courier_id \in DOMAIN couriers
          ELSE \/ data[i].weight > 50 * WeightScale
               \/ data[i].unknown_keys # {}
               \/ data[i].order_id \in DOMAIN orders
     \/ Cardinality(PostedIds) < Len(data)

\* C21: bulk creation of couriers or orders is all-or-nothing: if any item of
\* the submitted list is rejected (invalid field, unexpected field, or an
\* identifier that duplicates an existing record or another item of the same
\* list), no item of that list is persisted.
C21_AllOrNothing ==
  [][(request'.op \in {"create_couriers", "create_orders"} /\ SomeItemRejected)
       => (couriers' = couriers /\ orders' = orders)]_vars

\* no Assign request is between its statements
NoAssignInFlight(ps) == \A p \in Procs : ps[p].pc = "idle"

\* C22: when Assign runs concurrently for two different couriers whose
\* candidate order sets overlap, no order is claimed by both: an order bound
\* to a batch is not bound again to the batch of the other request (so no
\* order is reported in both responses, each response listing the orders
\* bound to its batch), and once both requests have ended neither courier is
\* left with an OPEN batch without orders.
C22_NoDoubleClaim ==
  [][/\ \A o \in Orders :
          orders[o].batch # None => orders'[o].batch = orders[o].batch
     /\ NoAssignInFlight(procs') =>
          \A b \in BatchIds(batches') :
            IsOpen(b, batches') => batch_orders(b, orders') # {}]_vars

\* C23: when two CompleteOrder requests for the same order with different
\* timestamps run concurrently, the order's complete_time ends at the value
\* written first, and the batch's OPEN to CLOSED transition takes effect at
\* most once: the save of a request leaves an order that is already completed
\* as it is, and the close of a request leaves a CLOSED batch as it is.
C23_FirstWriterWins ==
  [][\A p \in Procs :
       /\ (procs[p].pc = "save" /\ procs'[p].pc = "close"
            /\ orders[procs[p].order_id].complete_time # None)
          => orders' = orders
       /\ (procs[p].pc = "close" /\ procs'[p].pc = "idle"
            /\ IsClosed(procs[p].batch, batches))
          => batches' = batches]_vars

\* C24: when an update of a courier runs concurrently with a CompleteOrder or
\* an Assign for the same courier no update is lost: the loops of the update
\* never reset a recorded complete_time and never detach a completed order
\* from its batch.
C24_NoLostUpdate ==
  [][\A p \in Procs :
       (procs[p].pc = "drop" /\ procs'[p].pc = "idle")
       => \A o \in Orders :
            orders[o].complete_time # None
            => /\ orders'[o].complete_time = orders[o].complete_time
               /\ orders'[o].batch = orders[o].batch]_vars

\* the candidates sorted ascending by weight, ties broken by order id
ByWeightThenId(S, ords) ==
  CHOOSE seq \in order_by_weight(S, ords) :
    \A i, j \in 1..Len(seq) :
      (i < j /\ ords[seq[i]].weight = ords[seq[j]].weight) => seq[i] < seq[j]

\* C25: Assign for a courier without an OPEN batch accepts exactly the longest
\* prefix, of total weight at most the capacity, of the candidates sorted
\* ascending by weight with ties broken by order id, skipping candidates
\* whose hours do not intersect and stopping at the first one that does not
\* fit: the orders the request binds are exactly those.
C25_LongestPrefix ==
  [][\A c \in Couriers :
       (request'.op = "assign" /\ request'.courier_id = c /\ ~request'.once_assigned)
       => LET accepted ==
                Range(take_orders(ByWeightThenId(candidates(couriers[c], orders), orders),
                                  1, 0, <<>>, couriers[c], orders))
          IN \A o \in Orders : (orders'[o].batch # orders[o].batch) <=> (o \in accepted)]_vars

\* C26: a batch created by Assign has current_courier = the courier,
\* past_courier null and assign_type equal to the courier's type at that
\* moment; the assign_type and assign_time of a batch are never changed by a
\* later operation, including an UpdateCourierProfile that changes the type.
C26_AssignTypeFrozen ==
  [][/\ \A b \in BatchIds(batches') \ BatchIds(batches) :
          /\ request'.op = "assign"
          /\ batches'[b].current_courier = request'.courier_id
          /\ batches'[b].past_courier = None
          /\ batches'[b].assign_type = couriers[request'.courier_id].courier_type
     /\ \A b \in BatchIds(batches) :
          /\ batches'[b].assign_type = batches[b].assign_type
          /\ batches'[b].assign_time = batches[b].assign_time]_vars

\* an update has changed the type of a courier and left its OPEN batch in
\* place, with the type the courier had at assignment
C26_Witness ==
  /\ request.op = "update"
  /\ \E b \in BatchIds(batches) :
       /\ batches[b].current_courier = request.courier_id
       /\ batches[b].assign_type # couriers[request.courier_id].courier_type

\* C27: if the region and hours eviction, or the weight-driven eviction that
\* follows, of UpdateCourierProfile leaves the courier's batch with zero
\* orders, the batch is canceled: current_courier is cleared, past_courier
\* stays null, the courier has no OPEN batch afterwards and the batch counts
\* towards neither earnings nor rating.
C27_EmptiedBatchCanceled ==
  [][\A c \in Couriers : \A b \in OpenBatches(c) :
       (request'.op = "update" /\ request'.courier_id = c
        /\ batch_orders(b, orders') = {})
       => /\ batches'[b].current_courier = None
          /\ batches'[b].past_courier = None
          /\ ~has_current_batch(c, batches')
          /\ \A x \in Couriers : b \notin past_batches(x, batches')
          /\ get_earnings(c, batches') = get_earnings(c, batches)]_vars

\* the weight-driven eviction has emptied a batch: courier 2 holds order 2,
\* and the update of courier 1 from car to foot has canceled its batch of the
\* orders 1 and 3, which match its profile and weigh more than it can carry
C27_Witness ==
  /\ request.op = "update" /\ request.courier_id = 1
  /\ couriers[1].courier_type = FOOT
  /\ Len(batches) = 2
  /\ IsCanceled(2, batches) /\ batches[2].assign_type = CAR
  /\ orders[2].batch = 1
  /\ \A o \in {1, 3} : Unassigned(o) /\ Matches(o, 1)

\* the orders an update step has detached from their batch
Evicted == {o \in Orders : orders[o].batch # None /\ orders'[o].batch # orders[o].batch}

\* C28: every order evicted by UpdateCourierProfile becomes unassigned (batch
\* null) and incomplete, and is from then on a candidate of Assign for every
\* courier whose regions hold its region, the courier it was evicted from
\* included.
C28_EvictedReassignable ==
  [][request'.op = "update" =>
       \A o \in Evicted :
         /\ orders'[o].batch = None
         /\ orders'[o].complete_time = None
         /\ \A x \in Couriers :
              orders'[o].region \in couriers'[x].regions
              => o \in candidates(couriers'[x], orders')]_vars

\* the orders of a canceled batch, all of them evicted, have been bound to a
\* new batch by a later Assign
C28_Witness ==
  /\ request.op = "assign" /\ ~request.once_assigned
  /\ Len(batches) = 2
  /\ IsCanceled(1, batches)
  /\ batches[2].current_courier = request.courier_id
  /\ \A o \in Orders : orders[o].batch = 2

\* C29: UpdateCourierProfile on a courier that has no OPEN batch succeeds and
\* only updates the profile fields of that courier: no order's batch link and
\* no batch, in particular none of the courier's CLOSED batches, is modified.
C29_NoBatchProfileOnly ==
  [][\A c \in Couriers :
       (request'.op = "update" /\ request'.courier_id = c /\ OpenBatches(c) = {})
       => /\ response'.status = HTTP_200_OK
          /\ response'.data = courier_to_representation(c, couriers')
          /\ orders' = orders
          /\ batches' = batches
          /\ \A x \in Couriers \ {c} : couriers'[x] = couriers[x]]_vars

\* the profile of a courier with a CLOSED batch and no OPEN one has been
\* changed while the other courier holds an OPEN batch
C29_Witness ==
  /\ request.op = "update"
  /\ LET c == request.courier_id
     IN /\ OpenBatches(c) = {}
        /\ past_batches(c, batches) # {}
        /\ batches[CHOOSE b \in past_batches(c, batches) : TRUE].assign_type
             # couriers[c].courier_type
        /\ \E x \in Couriers \ {c} : OpenBatches(x) # {}

\* C30: CompleteOrder for an order whose batch is already CLOSED is accepted
\* when the claimed courier id equals the batch's past_courier and rejected
\* with "order not assigned" for any other courier id; the accepted call
\* leaves the batch CLOSED with the same past_courier.
C30_CompleteOnClosed ==
  [][\A o \in Orders :
       ( /\ request'.op = "complete" /\ request'.order_id = o
         /\ orders[o].batch # None
         /\ IsClosed(orders[o].batch, batches) )
       => LET b == orders[o].batch
          IN IF request'.courier_id = batches[b].past_courier
             THEN /\ response'.status = HTTP_200_OK
                  /\ IsClosed(b, batches')
                  /\ batches'[b].past_courier = batches[b].past_courier
             ELSE /\ response'.status = HTTP_400_BAD_REQUEST
                  /\ orders' = orders
                  /\ batches' = batches]_vars

\* a completion with another timestamp has been accepted for an order of a
\* CLOSED batch, which it left as it was
C30_Witness ==
  /\ request.op = "complete" /\ response.status = HTTP_200_OK
  /\ LET o == request.order_id
     IN /\ orders[o].batch # None
        /\ IsClosed(orders[o].batch, batches)
        /\ batches[orders[o].batch].past_courier = request.courier_id
        /\ orders[o].complete_time # request.complete_time

\* C31: over any sequence of operations the set of orders bound to a batch
\* never gains a member after the batch is created: it stays the same or
\* shrinks through eviction.
C31_BatchNeverGrows ==
  [][\A b \in BatchIds(batches) :
       batch_orders(b, orders') \subseteq batch_orders(b, orders)]_vars

\* the first batch, created for a car courier with all the orders, is still
\* OPEN and has shrunk to one order
C31_Witness ==
  /\ request.op = "update"
  /\ Len(batches) >= 1
  /\ batches[1].assign_type = CAR
  /\ IsOpen(1, batches)
  /\ Cardinality(batch_orders(1, orders)) = 1

\* the minutes since midnight that a time string denotes
Minutes(t) == (t[1] * 10 + t[2]) * 60 + t[3] * 10 + t[4]

\* C32: has_intersection(A, B) is true exactly when some window of A and some
\* window of B satisfy start1 < end2 and start2 < end1 (half-open, so windows
\* that only touch at an endpoint do not intersect), and it is false when
\* either set is empty.
C32_HalfOpenOverlap ==
  response.status = HTTP_200_OK =>
    LET A == request.time_ranges_1
        B == request.time_ranges_2
    IN /\ response.result <=>
            \E a \in A : \E b \in B :
              /\ Minutes(a[1]) < Minutes(b[2])
              /\ Minutes(b[1]) < Minutes(a[2])
       /\ (A = {} \/ B = {}) => ~response.result

\* 10:00-12:00 and 12:00-18:00 have been compared and do not intersect
C32_Witness ==
  /\ response.status = HTTP_200_OK
  /\ request.time_ranges_1 = {<<T1000, T1200>>}
  /\ request.time_ranges_2 = {<<T1200, T1800>>}
  /\ ~response.result

\* a stored or submitted window whose end is earlier than its start
EndsBeforeStart(w) == Minutes(w[2]) < Minutes(w[1])

\* C33: a time window whose end is earlier than its start (18:00-09:00) is
\* rejected as a validation error when a courier or order is created or a
\* courier is updated, so no stored working_hours or delivery_hours ever
\* contains such a window.
C33_NoReversedWindow ==
  /\ (/\ request.op \in {"create_courier", "update_courier", "create_order"}
      /\ request.hours.type = "str" /\ request.hours.format
      /\ EndsBeforeStart(request.hours.times))
     => response.status = HTTP_400_BAD_REQUEST
  /\ \A c \in DOMAIN couriers : \A w \in couriers[c].working_hours : ~EndsBeforeStart(w)
  /\ \A o \in DOMAIN orders : \A w \in orders[o].delivery_hours : ~EndsBeforeStart(w)

\* a request is inside one of its loops
InLoop == procs[1].pc \in {"scan", "hours", "heavy"}

\* C34: every Assign, UpdateCourierProfile and CompleteOrder call terminates:
\* the candidate scan, the hours-eviction loop and the weight-eviction loop
\* each visit every fetched order at most once (the fetched rows are distinct,
\* the position never passes their end, and the rows from the position on are
\* untouched by the loop: they are the incomplete orders of the batch, or in
\* the weight loop rows the hours loop dropped), so the weight-eviction loop
\* ends after at most as many evictions as the batch has incomplete orders,
\* and a request that has begun ends.
C34_Terminates ==
  /\ [](InLoop =>
          /\ procs[1].i <= Len(procs[1].fetched) + 1
          /\ \A j, k \in 1..Len(procs[1].fetched) :
                procs[1].fetched[j] = procs[1].fetched[k] => j = k)
  /\ [](procs[1].pc = "hours" =>
          \A k \in procs[1].i..Len(procs[1].fetched) :
            procs[1].fetched[k] \in incomplete_orders(procs[1].batch, orders))
  /\ [](procs[1].pc = "heavy" =>
          \A k \in procs[1].i..Len(procs[1].fetched) :
            \/ procs[1].fetched[k] \in incomplete_orders(procs[1].batch, orders)
            \/ ~has_intersection(orders[procs[1].fetched[k]].delivery_hours,
                                 couriers[procs[1].courier_id].working_hours))
  /\ (procs[1].pc # "idle") ~> (procs[1].pc = "idle")

\* the weight loop over three fetched orders has evicted the heaviest and
\* goes on to the next
C34_Witness ==
  /\ procs[1].pc = "heavy"
  /\ procs[1].i = 2
  /\ Len(procs[1].fetched) = 3

\* C35: in every state reachable by Assign, UpdateCourierProfile and
\* CompleteOrder calls, every OPEN batch contains at least one incomplete
\* order (so an update that evicts all incomplete orders of a batch that also
\* holds completed orders does not leave an OPEN batch that cannot be closed).
C35_OpenBatchHasWork ==
  \A b \in BatchIds(batches) :
    IsOpen(b, batches) => incomplete_orders(b, orders) # {}

\* C36: in every state reachable by any sequence of operations, every order
\* bound to a batch that is not OPEN is completed: each CLOSED batch holds at
\* least one order and all of its orders have complete_time set, and no order
\* is bound to a CANCELED batch.
C36_NonOpenBatchesSettled ==
  \A b \in BatchIds(batches) :
    /\ IsClosed(b, batches) =>
         /\ batch_orders(b, orders) # {}
         /\ incomplete_orders(b, orders) = {}
    /\ IsCanceled(b, batches) => batch_orders(b, orders) = {}
    /\ \/ IsOpen(b, batches)
       \/ IsClosed(b, batches)
       \/ IsCanceled(b, batches)

\* a CLOSED batch of two orders next to a CANCELED batch
C36_Witness ==
  \E b1, b2 \in BatchIds(batches) :
    /\ IsClosed(b1, batches)
    /\ Cardinality(batch_orders(b1, orders)) >= 2
    /\ IsCanceled(b2, batches)

\* C37: for every courier with at least one CLOSED batch, whatever completion
\* timestamps the CompleteOrder calls supplied (earlier than the batch's
\* assign_time or out of order within the batch included), the computed
\* rating lies between 0 and 5 inclusive.
C37_RatingInRange ==
  \A c \in Couriers :
    past_batches(c, batches) # {} =>
      \A walks \in Walks(c, orders, batches) :
        /\ get_rating(c, walks, orders, batches) >= 0
        /\ get_rating(c, walks, orders, batches) <= 5 * RatingScale

\* the total weight of the batch the last Assign request created for courier
\* c (0 when it created none)
JustAssigned(c) ==
  IF has_current_batch(c, batches)
  THEN SumWeights(batch_orders(current_batch(c, batches), orders), orders)
  ELSE 0

\* the orders an Assign request for courier c would still consider: unassigned,
\* incomplete, in one of the regions, with intersecting hours
StillEligible(c) ==
  {o \in Orders :
     /\ orders[o].batch = None
     /\ orders[o].complete_time = None
     /\ orders[o].region \in couriers[c].regions
     /\ has_intersection(orders[o].delivery_hours, couriers[c].working_hours)}

\* C38: Assign is maximal: immediately after an Assign call for a courier that
\* had no OPEN batch, every order that is still unassigned, incomplete, in one
\* of the courier's regions and with intersecting hours is strictly heavier
\* than the capacity minus the total weight just assigned (heavier than the
\* capacity when nothing was assigned).
C38_AssignMaximal ==
  (request.op = "assign" /\ ~request.once_assigned) =>
    \A o \in StillEligible(request.courier_id) :
      orders[o].weight > capacity(couriers[request.courier_id])
                           - JustAssigned(request.courier_id)

\* an Assign has created a batch and left an eligible order that no longer
\* fits
C38_Witness ==
  /\ request.op = "assign" /\ ~request.once_assigned
  /\ JustAssigned(request.courier_id) > 0
  /\ StillEligible(request.courier_id) # {}

\* an Assign has assigned nothing although an eligible order is left
C38_WitnessNothing ==
  /\ request.op = "assign" /\ ~request.once_assigned
  /\ JustAssigned(request.courier_id) = 0
  /\ StillEligible(request.courier_id) # {}

\* C39: UpdateCourierProfile is idempotent: applying the same regions,
\* working_hours and courier_type a second time, with no operation in between,
\* evicts no further order and changes no batch.
C39_UpdateIdempotent ==
  [][(/\ request.op = "update" /\ response.status = HTTP_200_OK
      /\ request'.op = "update" /\ request'.courier_id = request.courier_id
      /\ couriers' = couriers)
     => (orders' = orders /\ batches' = batches)]_vars

\* the update of a courier from car to foot has evicted by weight: its batch,
\* assigned to a car, is still OPEN with an order in it, and two orders that
\* match the new profile are unassigned
C39_Witness ==
  /\ request.op = "update" /\ response.status = HTTP_200_OK
  /\ LET c == request.courier_id
     IN /\ couriers[c].courier_type = FOOT
        /\ Len(batches) = 1
        /\ batches[1].current_courier = c /\ batches[1].assign_type = CAR
        /\ incomplete_orders(1, orders) # {}
        /\ \A o \in Orders : orders[o].complete_time = None
        /\ Cardinality({o \in Orders : Unassigned(o) /\ Matches(o, c)}) = 2

\* the batches, OPEN or CLOSED, of the couriers other than c
BatchesOfOthers(c) ==
  {b \in BatchIds(batches) :
     \/ batches[b].current_courier \notin {c, None}
     \/ batches[b].past_courier \notin {c, None}}

\* C40: operations are local to their courier: Assign(c),
\* UpdateCourierProfile(c) and CompleteOrder on an order of c's batch never
\* change another courier's profile, another courier's OPEN or CLOSED batch,
\* or the batch link or complete_time of any order bound to another courier's
\* batch.
C40_LocalToCourier ==
  [][request'.op \in {"assign", "update", "complete"} =>
       LET c == request'.courier_id
       IN /\ \A x \in Couriers \ {c} : couriers'[x] = couriers[x]
          /\ \A b \in BatchesOfOthers(c) : batches'[b] = batches[b]
          /\ \A o \in Orders :
               orders[o].batch \in BatchesOfOthers(c) =>
                 /\ orders'[o].batch = orders[o].batch
                 /\ orders'[o].complete_time = orders[o].complete_time]_vars

\* the update of a courier has canceled its batch while the other courier
\* holds an OPEN batch with an incomplete order
C40_Witness ==
  /\ request.op = "update" /\ response.status = HTTP_200_OK
  /\ Len(batches) = 2
  /\ \E b1, b2 \in BatchIds(batches) :
       /\ IsCanceled(b1, batches)
       /\ IsOpen(b2, batches)
       /\ batches[b2].current_courier # request.courier_id
       /\ incomplete_orders(b2, orders) # {}

====
